---- MODULE Spec2Model ----
(***************************************************************************)
(* Model of the stateful plugin pipeline engine of cpp_plugins:            *)
(*   - the decision plugins' classification state machine                  *)
(*     (decision_plugin_base.cpp),                                         *)
(*   - the score / status alarm debounce engine (event_plugin_base.cpp),   *)
(*   - the plugin registry and the chain orchestrator (plugin_manager.cpp),*)
(*   - the realtime health evaluation (evaluation_plugin_base.cpp),        *)
(*   - the execution monitor (PluginMonitorManager, plugin_manager.cpp).   *)
(* Each part has its own specification (SpecDecision, SpecAlarm,           *)
(* SpecChain; SpecLifecycle for initialize / cleanup of one decision       *)
(* plugin, SpecRegistry for the caller threads of the registry, SpecHealth,*)
(* SpecMonitor, SpecPure for the pure functions); the variables of the     *)
(* other parts stay at their initial values.  SpecLocksFair follows the    *)
(* manager calls through the two mutexes, and SpecSettleFair is a decision *)
(* plugin whose raw status becomes constant; both state fairness.          *)
(***************************************************************************)
EXTENDS Integers, Sequences, FiniteSets, TLC

(***************************************************************************)
(* Bounds of the model.                                                    *)
(***************************************************************************)
\* classifyStatus invocations in one behaviour
MaxCalls == 4
\* clock ticks per second: std::chrono::system_clock is finer than the
\* seconds that duration_cast<seconds> truncates to
TicksPerSec == 2
\* processEvent invocations in one behaviour
MaxEvents == 3
\* clock advances in one alarm behaviour
MaxTicks == 2
\* chain manager calls in one behaviour
MaxChainOps == 3
\* registry calls in one behaviour
MaxRegistryOps == 1
\* initialize / cleanup calls on one plugin instance in one behaviour
MaxLifecycleOps == 3
\* classifyStatus invocations in one lifecycle behaviour
MaxLifecycleCalls == 2
\* PluginManager calls in one registry behaviour
MaxRegistryCalls == 3
\* longest vector of feature statuses, longest list of thresholds or alarm lines
MaxLen == 3
\* evaluateHealth invocations in one behaviour
MaxHealthCalls == 3
\* PluginMonitorManager calls in one behaviour
MaxMonitorCalls == 4
\* manager calls started in one behaviour of the two mutexes
MaxLockOps == 3
\* classifyStatus invocations before the raw status stays constant
MaxPriorCalls == 2
\* classifyStatus invocations while the raw status stays constant
MaxSteadyCalls == 3

None == "none"
\* a result record (or a map) without entries
EmptyRecord == [k \in {} |-> 0]

Max(a, b) == IF a >= b THEN a ELSE b

\* duration_cast<std::chrono::seconds>(to - from).count(): truncation toward 0
DurationSeconds(from, to) ==
  IF to >= from THEN (to - from) \div TicksPerSec
                ELSE 0 - ((from - to) \div TicksPerSec)

(***************************************************************************)
(* Variables.                                                              *)
(***************************************************************************)
VARIABLES
  now,                  \* std::chrono::system_clock::now(), in ticks
  \* ---- decision plugin (UniversalClassifyPluginBase / Motor97Plugin)
  transition_width_,    \* <<start width, close width>>
  time_series_width_,   \* <<width, unused>>
  status_mapping_,      \* the status codes that have a name
  prev_time_,           \* 0 is the default-constructed time_point
  prev_status_,         \* -1 is "none"
  transition_counter_,
  close_counter_,
  time_series_counter_,
  status_history_,
  dec_calls,            \* number of classifyStatus invocations so far
  dec_result,           \* the result record the caller passed to the last call
  dec_ret,              \* return value of the last call
  dec_seen,             \* history of the last call: what it compared and computed
  \* ---- lifecycle of the decision plugin instance (DecisionPluginBase)
  initialized_,         \* what isInitialized() returns
  select_loaded,        \* validateParameters has stored select_features_ / thresholds_
  init_failed,          \* an initialize of this instance has returned false
  life_ops,             \* initialize / cleanup calls so far
  \* ---- score alarm plugin (ScoreAlarmPluginBase / ScoreAlarm5Plugin)
  last_alarm_time_,     \* health name -> time of the last firing
  alarm_count_,         \* health name -> firings so far
  tolerable_count_,     \* health name -> tolerance counter
  \* ---- status alarm plugin (StatusAlarmPluginBase / StatusAlarm4Plugin)
  st_last_alarm_time_,  \* status code -> time of the last firing
  st_alarm_count_,      \* status code -> firings so far
  \* ---- what the callers of the alarm plugins observed
  ev_calls,             \* processEvent invocations so far (both plugins)
  ev_ticks,             \* clock advances so far
  ev_result,            \* the result record of the last processEvent
  ev_seen,              \* the last processEvent: plugin, time, keys and scores presented, keys fired
  fire_log,             \* health name -> times at which an alarm event was emitted
  st_fire_log,          \* status code -> times at which an alarm event was emitted
  breach_run,           \* health name -> breaching invocations since the last firing
  fire_breaches,        \* health name -> breach_run at the last firing, -1 before
  \* ---- registry (PluginManager) and chain orchestrator (PluginChainManager)
  plugin_factories_,    \* plugin name -> factory
  plugin_chains_,       \* chain name -> ChainConfig
  plugin_instances_,    \* chain name -> (plugin name -> plugin instance)
  chain_mutex,          \* PluginChainManager::mutex_: the thread that holds it
  thread,               \* per caller thread: the chain manager call in progress
  done,                 \* the chain manager call that returned last, as its caller saw it
  next_id,              \* identity of the next plugin object a factory makes
  stage_made,           \* chain name -> per stage, the instance createChain made for it
  chain_ops,            \* chain manager calls started so far
  registry_ops,         \* registry calls so far
  \* ---- callers of the registry (PluginManager)
  reg_thread,           \* per caller thread: the createPlugin call in progress
  reg_done,             \* the registry call that returned last, as its caller saw it
  reg_log,              \* the register / unregister / clear calls that took effect, in order
  reg_calls,            \* registry calls started so far
  \* ---- the pure functions of the plugins, applied on their own
  applied,              \* the last application: function, arguments, result
  \* ---- realtime health plugin (CompRealtimeHealth34Plugin)
  minimum_quantity_,
  close_width_,
  health_prev_time_,    \* RealtimeHealthPluginBase::prev_time_, 0 is the default
  feature_cache_,       \* analysis feature -> cached samples
  time_cache_,          \* analysis status -> times of the cached samples
  last_health_scores_,  \* health name -> the score emitted last
  run_count_,
  close_count_,
  health_calls,         \* evaluateHealth invocations so far
  health_result,        \* the output record of the last evaluateHealth
  health_ret,           \* return value of the last evaluateHealth
  health_seen,          \* history of the last evaluateHealth
  \* ---- execution monitor (PluginMonitorManager)
  plugin_metrics_,      \* plugin name -> PluginMetrics
  monitored_plugins_,
  monitoring_enabled_,
  mon_calls,            \* PluginMonitorManager calls so far
  mon_recorded,         \* plugin name -> recordExecution calls made for it while
                        \* it was monitored and monitoring was enabled
  mon_seen,             \* the last call: operation, plugin name, state it found
  \* ---- the two mutexes (PluginManager::mutex_, PluginChainManager::mutex_)
  registry_mutex,       \* the thread that holds PluginManager::mutex_, or None
  lock_thread,          \* per thread: the manager call it is in and its position
  lock_ops,             \* manager calls started so far
  \* ---- a decision plugin whose raw status stays constant from some call on
  steady,               \* that raw status, -1 before
  steady_calls          \* classifyStatus invocations since

decVars == <<transition_width_, time_series_width_, status_mapping_, prev_time_,
             prev_status_, transition_counter_, close_counter_,
             time_series_counter_, status_history_, dec_calls, dec_result,
             dec_ret, dec_seen>>
lifeVars == <<initialized_, select_loaded, init_failed, life_ops>>
healthVars == <<minimum_quantity_, close_width_, health_prev_time_, feature_cache_,
                time_cache_, last_health_scores_, run_count_, close_count_,
                health_calls, health_result, health_ret, health_seen>>
monVars == <<plugin_metrics_, monitored_plugins_, monitoring_enabled_, mon_calls,
             mon_recorded, mon_seen>>
lockVars == <<registry_mutex, lock_thread, lock_ops>>
steadyVars == <<steady, steady_calls>>

(***************************************************************************)
(* Decision plugins: configuration.                                        *)
(***************************************************************************)
select_features_ == <<"f1", "f2">>
thresholds_ == << <<0, 10, 20>>, <<0, 10, 20>> >>
offline_length_ == 2
transition_status_ == 2
time_series_status_ == 5
run_feature_num_ == 1
veto_index_ == -1
max_history_size_ == 10

\* the widths a plugin can be configured with; <<60, 10>> is the default
TransitionWidths == { <<60, 10>>, <<1, 1>>, <<2, 2>> }
TimeSeriesWidths == { <<0, 0>>, <<2, 0>> }
\* parseStatusMapping fills 0..3 when the parameter is given, else the map is empty
StatusMappings == { {}, {0, 1, 2, 3} }

FeatureValues == {0, 15}
FeatureMaps ==
  UNION { [S -> FeatureValues] : S \in SUBSET {"f1", "f2"} }
\* the readings presented to classifyStatus
DecisionInputs ==
  [type : {"FEATURE_DATA"}, features : FeatureMaps]
    \cup [type : {"REAL_TIME"}, features : {<<>>}]
\* clock advance between two invocations, in ticks
DecisionGaps == {1, offline_length_ * TicksPerSec, offline_length_ * TicksPerSec + 1,
                 (offline_length_ + 1) * TicksPerSec}
\* UniversalClassifyPluginBase::getSupportedInputTypes
getSupportedInputTypes == {"FEATURE_DATA", "REAL_TIME"}
\* Motor97Plugin::getSelectFeatures / getThresholds: the vectors are empty
\* until validateParameters has stored the parameter set's arrays
getSelectFeatures == IF select_loaded THEN select_features_ ELSE <<>>
getThresholds == IF select_loaded THEN thresholds_ ELSE <<>>

(***************************************************************************)
(* Decision plugins: pure functions.                                       *)
(***************************************************************************)
\* variant: a value equal to a threshold belongs to the next band
calculateFeatureStatus_strict(feature_value, threshold) ==
  IF \E i \in 1..Len(threshold) : feature_value < threshold[i]
    THEN (CHOOSE i \in 1..Len(threshold) :
             /\ feature_value < threshold[i]
             /\ \A j \in 1..(i - 1) : ~(feature_value < threshold[j])) - 1
    ELSE Len(threshold)

calculateFeatureStatus(feature_value, threshold) ==
  IF \E i \in 1..Len(threshold) : feature_value <= threshold[i]
    THEN (CHOOSE i \in 1..Len(threshold) :
             /\ feature_value <= threshold[i]
             /\ \A j \in 1..(i - 1) : ~(feature_value <= threshold[j])) - 1
    ELSE Len(threshold)

\* variant: the veto is not looked at
calculateOverallStatusOf_noVeto(feature_statuses, veto_index, run_feature_num) ==
  IF Len(feature_statuses) = 0 THEN 0
  ELSE LET run_count == Cardinality({i \in 1..Len(feature_statuses) :
                                        feature_statuses[i] > 0})
       IN IF run_count >= run_feature_num THEN 1 ELSE 0

\* variant: the quorum must be exceeded
calculateOverallStatusOf_strictQuorum(feature_statuses, veto_index, run_feature_num) ==
  IF Len(feature_statuses) = 0 THEN 0
  ELSE IF /\ veto_index >= 0
          /\ veto_index < Len(feature_statuses)
          /\ feature_statuses[veto_index + 1] = 0
    THEN 0
  ELSE LET run_count == Cardinality({i \in 1..Len(feature_statuses) :
                                        feature_statuses[i] > 0})
       IN IF run_count > run_feature_num THEN 1 ELSE 0

\* UniversalClassifyPluginBase / UniversalClassify1Plugin::calculateOverallStatus
\* in a plugin whose fields are veto_index and run_feature_num;
\* feature_statuses is a sequence, veto_index is 0-based as in the source
calculateOverallStatusOf(feature_statuses, veto_index, run_feature_num) ==
  IF Len(feature_statuses) = 0 THEN 0
  ELSE IF /\ veto_index >= 0
          /\ veto_index < Len(feature_statuses)
          /\ feature_statuses[veto_index + 1] = 0
    THEN 0
  ELSE LET run_count == Cardinality({i \in 1..Len(feature_statuses) :
                                        feature_statuses[i] > 0})
       IN IF run_count >= run_feature_num THEN 1 ELSE 0

\* Motor97Plugin::calculateOverallStatus: it has no veto
calculateOverallStatusMotor97(feature_statuses, run_feature_num) ==
  IF Len(feature_statuses) = 0 THEN 0
  ELSE LET run_count == Cardinality({i \in 1..Len(feature_statuses) :
                                        feature_statuses[i] > 0})
       IN IF run_count >= run_feature_num THEN 1 ELSE 0

\* the function in the plugin under study, with its configured fields
calculateOverallStatus(feature_statuses) ==
  calculateOverallStatusOf(feature_statuses, veto_index_, run_feature_num_)

\* Motor97Plugin::handleTransition: the return value and the two counters after
handleTransition(current_status, previous_status, tc, cc, width) ==
  IF current_status = 1 /\ previous_status = 0
    THEN IF tc + 1 >= width[1]
           THEN [ret |-> TRUE, tc |-> 0, cc |-> cc]
           ELSE [ret |-> FALSE, tc |-> tc + 1, cc |-> cc]
  ELSE IF current_status = 0 /\ previous_status = 1
    THEN IF cc + 1 >= width[2]
           THEN [ret |-> FALSE, tc |-> 0, cc |-> 0]
           ELSE [ret |-> FALSE, tc |-> tc, cc |-> cc + 1]
  ELSE [ret |-> FALSE, tc |-> tc, cc |-> cc]

\* variant: the counter is not cleared when the time-series status is emitted
handleTimeSeriesTransition_keepCounter(current_status, previous_status, tsc, width) ==
  IF width[1] > 0
    THEN IF current_status # previous_status
           THEN IF tsc + 1 >= width[1]
                  THEN [ret |-> TRUE, tsc |-> tsc]
                  ELSE [ret |-> FALSE, tsc |-> tsc + 1]
           ELSE [ret |-> FALSE, tsc |-> 0]
    ELSE [ret |-> FALSE, tsc |-> tsc]

\* Motor97Plugin::handleTimeSeriesTransition: return value and counter after
handleTimeSeriesTransition(current_status, previous_status, tsc, width) ==
  IF width[1] > 0
    THEN IF current_status # previous_status
           THEN IF tsc + 1 >= width[1]
                  THEN [ret |-> TRUE, tsc |-> 0]
                  ELSE [ret |-> FALSE, tsc |-> tsc + 1]
           ELSE [ret |-> FALSE, tsc |-> 0]
    ELSE [ret |-> FALSE, tsc |-> tsc]

addStatusToHistory(history, status) ==
  LET h == Append(history, status)
  IN IF Len(h) > max_history_size_ THEN Tail(h) ELSE h

\* std::max_element over the ordered map of counts: the first (smallest) status
\* among those with the highest count
getMostFrequentStatus(history) ==
  IF Len(history) = 0 THEN -1
  ELSE LET codes == {history[i] : i \in 1..Len(history)}
           cnt(s) == Cardinality({i \in 1..Len(history) : history[i] = s})
       IN CHOOSE s \in codes :
            /\ \A r \in codes : cnt(r) <= cnt(s)
            /\ \A r \in codes : cnt(r) = cnt(s) => s <= r

\* numerator and denominator of the confidence
calculateConfidence(feature_statuses, history) ==
  IF Len(feature_statuses) = 0 THEN <<0, 1>>
  ELSE CHOOSE c \in
         { << Cardinality({i \in 1..Len(fs) : fs[i] = getMostFrequentStatus(h)}),
              Len(fs) >> : fs \in {feature_statuses}, h \in {history} } : TRUE

\* the per-feature statuses of a reading that has every selected feature
FeatureStatuses(features) ==
  [i \in 1..Len(getSelectFeatures) |->
      calculateFeatureStatus(features[getSelectFeatures[i]], getThresholds[i])]

(***************************************************************************)
(* Decision plugins: classifyStatus.                                       *)
(***************************************************************************)
\* UniversalClassifyPluginBase::offlineCheck: does resetState run at current_time
OfflineExpired(current_time) ==
  /\ prev_time_ # 0
  /\ DurationSeconds(prev_time_, current_time) > offline_length_

\* no classifyStatus call has been made
NoClassify ==
  [computed |-> FALSE, p |-> -1, raw |-> -1, run |-> 0,
   type |-> None, why |-> None, reset |-> FALSE]

DecInit ==
  /\ transition_width_ \in TransitionWidths
  /\ time_series_width_ \in TimeSeriesWidths
  /\ status_mapping_ \in StatusMappings
  /\ prev_time_ = 0
  /\ prev_status_ = -1
  /\ transition_counter_ = 0
  /\ close_counter_ = 0
  /\ time_series_counter_ = 0
  /\ status_history_ = <<>>
  /\ dec_calls = 0
  /\ dec_result = EmptyRecord
  /\ dec_ret = None
  /\ dec_seen = NoClassify

\* the decision plugin when another part of the system is under study
DecParked ==
  /\ transition_width_ = <<60, 10>>
  /\ time_series_width_ = <<0, 0>>
  /\ status_mapping_ = {}
  /\ prev_time_ = 0
  /\ prev_status_ = -1
  /\ transition_counter_ = 0
  /\ close_counter_ = 0
  /\ time_series_counter_ = 0
  /\ status_history_ = <<>>
  /\ dec_calls = 0
  /\ dec_result = EmptyRecord
  /\ dec_ret = None
  /\ dec_seen = NoClassify

\* dynamic_pointer_cast<FeatureData> fails: nothing is touched
ClassifyWrongType(input) ==
  /\ input.type # "FEATURE_DATA"
  /\ dec_ret' = FALSE
  /\ dec_result' = EmptyRecord
  /\ dec_seen' = [dec_seen EXCEPT !.computed = FALSE, !.type = input.type,
                                  !.why = "type", !.reset = FALSE]
  /\ UNCHANGED <<prev_time_, prev_status_, transition_counter_, close_counter_,
                 time_series_counter_, status_history_>>

\* a selected feature is missing: only offlineCheck has run
ClassifyMissingFeature(input, expired) ==
  /\ input.type = "FEATURE_DATA"
  /\ \E i \in 1..Len(getSelectFeatures) :
        getSelectFeatures[i] \notin DOMAIN input.features
  /\ prev_time_' = now'
  /\ prev_status_' = IF expired THEN -1 ELSE prev_status_
  /\ transition_counter_' = IF expired THEN 0 ELSE transition_counter_
  /\ close_counter_' = IF expired THEN 0 ELSE close_counter_
  /\ time_series_counter_' = IF expired THEN 0 ELSE time_series_counter_
  /\ dec_ret' = FALSE
  /\ dec_result' = EmptyRecord
  /\ dec_seen' = [dec_seen EXCEPT !.computed = FALSE, !.type = input.type,
                                  !.why = "missing", !.reset = expired]
  /\ UNCHANGED status_history_

\* every selected feature is present: the status is computed, smoothed, stored
\* and written; the name lookup .at() throws when the code has no name
ClassifyComputed(input, expired) ==
  /\ input.type = "FEATURE_DATA"
  /\ \A i \in 1..Len(getSelectFeatures) :
        getSelectFeatures[i] \in DOMAIN input.features
  /\ LET feature_statuses == FeatureStatuses(input.features)
         raw == calculateOverallStatus(feature_statuses)
         p == IF expired THEN -1 ELSE prev_status_
         tc0 == IF expired THEN 0 ELSE transition_counter_
         cc0 == IF expired THEN 0 ELSE close_counter_
         ts0 == IF expired THEN 0 ELSE time_series_counter_
         differs == p # -1 /\ raw # p
         ht == IF differs
                 THEN handleTransition(raw, p, tc0, cc0, transition_width_)
                 ELSE [ret |-> FALSE, tc |-> tc0, cc |-> cc0]
         s1 == IF ht.ret THEN transition_status_ ELSE raw
         hts == IF differs
                  THEN handleTimeSeriesTransition(s1, p, ts0, time_series_width_)
                  ELSE [ret |-> FALSE, tsc |-> ts0]
         overall_status == IF hts.ret THEN time_series_status_ ELSE s1
         history == addStatusToHistory(status_history_, overall_status)
         named == overall_status \in status_mapping_
     IN /\ prev_time_' = now'
        /\ transition_counter_' = ht.tc
        /\ close_counter_' = ht.cc
        /\ time_series_counter_' = hts.tsc
        /\ status_history_' = history
        /\ prev_status_' = overall_status
        /\ dec_result' =
             IF named
               THEN [k \in {"status", "status_name", "confidence"} |->
                       CASE k = "status" -> overall_status
                         [] k = "status_name" -> overall_status
                         [] OTHER -> calculateConfidence(feature_statuses, history)]
               ELSE [k \in {"status"} |-> overall_status]
        /\ dec_ret' = named
        /\ dec_seen' = [computed |-> TRUE, p |-> p, raw |-> raw,
                        run |-> IF dec_seen.raw = raw THEN dec_seen.run + 1 ELSE 1,
                        type |-> input.type,
                        why |-> IF named THEN "ok" ELSE "name",
                        reset |-> expired]

\* one classifyStatus invocation, gap ticks after the one before
classifyOnce(input, gap) ==
  /\ now' = now + gap
  /\ LET expired == OfflineExpired(now + gap)
     IN \/ ClassifyWrongType(input)
        \/ ClassifyMissingFeature(input, expired)
        \/ ClassifyComputed(input, expired)
  /\ UNCHANGED <<transition_width_, time_series_width_, status_mapping_>>
  /\ UNCHANGED lifeVars

classifyStatus(input, gap) ==
  /\ dec_calls < MaxCalls
  /\ dec_calls' = dec_calls + 1
  /\ classifyOnce(input, gap)

(***************************************************************************)
(* Decision plugins: a caller whose readings, from some invocation on, all *)
(* have the same raw overall status and come without an offline gap.       *)
(***************************************************************************)
SteadyInit ==
  /\ steady = -1
  /\ steady_calls = 0

\* the readings whose raw overall status is s
SteadyInputs(s) ==
  { input \in DecisionInputs :
      /\ input.type = "FEATURE_DATA"
      /\ \A i \in 1..Len(getSelectFeatures) :
            getSelectFeatures[i] \in DOMAIN input.features
      /\ calculateOverallStatus(FeatureStatuses(input.features)) = s }

\* clock advance between two invocations of this caller, in ticks: half a
\* second, or more than offline_length seconds
SettleGaps == {1, (offline_length_ + 1) * TicksPerSec}

\* the status written to the result record by the last invocation, -1 if none
EmittedStatus ==
  IF "status" \in DOMAIN dec_result THEN dec_result["status"] ELSE -1

\* an invocation before the raw status stays constant
classifyPrior(input, gap) ==
  /\ steady = -1
  /\ dec_calls < MaxPriorCalls
  /\ dec_calls' = dec_calls + 1
  /\ classifyOnce(input, gap)
  /\ UNCHANGED steadyVars

\* from here on the raw status is s
settle(s) ==
  /\ steady = -1
  /\ steady' = s
  /\ UNCHANGED <<now, decVars, lifeVars, steady_calls>>

\* an invocation with the constant raw status; after the first one, each
\* comes within offline_length of the one before
classifySteady(input, gap) ==
  /\ steady # -1
  /\ steady_calls < MaxSteadyCalls
  /\ input \in SteadyInputs(steady)
  /\ steady_calls > 0 => ~OfflineExpired(now + gap)
  /\ steady_calls' = steady_calls + 1
  /\ classifyOnce(input, gap)
  /\ UNCHANGED <<dec_calls, steady>>

(***************************************************************************)
(* Decision plugins: lifecycle of one instance.                            *)
(***************************************************************************)
\* the parameter sets initialize is called with: without select_features,
\* with the required arrays only, with a status_mapping as well
InitParams == {"empty", "plain", "mapped"}

\* Motor97Plugin::validateParameters: the return value
validateDecisionParameters(params) == params # "empty"

\* a plugin that initialize has made Ready with status names configured or not
LifeReady ==
  /\ initialized_ = TRUE
  /\ select_loaded = TRUE
  /\ init_failed = FALSE
  /\ life_ops = 0

\* a plugin as its constructor leaves it
LifeConstructed ==
  /\ initialized_ = FALSE
  /\ select_loaded = FALSE
  /\ init_failed = FALSE
  /\ life_ops = 0

\* DecisionPluginBase::initialize with Motor97Plugin::validateParameters
initialize(params) ==
  /\ life_ops < MaxLifecycleOps
  /\ life_ops' = life_ops + 1
  /\ initialized_' = validateDecisionParameters(params)
  /\ init_failed' = (init_failed \/ ~validateDecisionParameters(params))
  /\ select_loaded' = (select_loaded \/ validateDecisionParameters(params))
  /\ status_mapping_' = IF params = "mapped" THEN {0, 1, 2, 3} ELSE status_mapping_
  /\ UNCHANGED <<now, transition_width_, time_series_width_, prev_time_,
                 prev_status_, transition_counter_, close_counter_,
                 time_series_counter_, status_history_, dec_calls, dec_result,
                 dec_ret, dec_seen>>

\* DecisionPluginBase::cleanup
cleanup ==
  /\ life_ops < MaxLifecycleOps
  /\ life_ops' = life_ops + 1
  /\ initialized_' = FALSE
  /\ UNCHANGED <<select_loaded, init_failed, now, decVars>>

(***************************************************************************)
(* Alarm plugins: configuration.                                           *)
(***************************************************************************)
alarmVars == <<last_alarm_time_, alarm_count_, tolerable_count_,
               st_last_alarm_time_, st_alarm_count_, ev_calls, ev_ticks,
               ev_result, ev_seen, fire_log, st_fire_log, breach_run,
               fire_breaches>>

health_definitions_ == <<"h1", "h2">>
alarm_lines_ == <<60, 80>>
tolerable_length_ == 2
alarm_interval_ == 2
alarm_enabled_ == TRUE
\* defaults of shouldTriggerStatusAlarm: max_alarm_num_ and recovery_reset_time_
\* are never filled, so every status code gets the defaults
DefaultMaxAlarmNum == 10
DefaultRecoveryResetTime == 3600
\* parseAlarmRules: the only alarm rule is the one of status code 0
AlarmRuleCodes == {0}
\* parseAlarmRules: rule["max_alarm_num"] of that rule
RuleMaxAlarmNum == 1

HealthNames == {health_definitions_[i] : i \in 1..Len(health_definitions_)}
ScoreValues == {50, 100}
StatusCodes == {0, 1}
\* the readings presented to the score alarm plugin
ScoreInputs ==
  [type : {"FEATURE_DATA"}, features : [HealthNames -> ScoreValues], status : {0}]
    \cup { [type |-> "FEATURE_DATA", features |-> [k \in {"h1"} |-> 100], status |-> 0],
           [type |-> "REAL_TIME", features |-> [k \in HealthNames |-> 50], status |-> 0],
           [type |-> "BATCH_DATA", features |-> EmptyRecord, status |-> 0] }
\* the readings presented to the status alarm plugin; status is the code of a
\* StatusData and the feature "status" of a FeatureData
StatusInputs ==
  [type : {"STATUS_DATA"}, features : {EmptyRecord}, status : StatusCodes]
    \cup { [type |-> "FEATURE_DATA", features |-> EmptyRecord, status |-> 1],
           [type |-> "BATCH_DATA", features |-> EmptyRecord, status |-> 1] }
\* clock advances, in ticks: half a second, a second, just under the recovery time
AlarmGaps == {1, TicksPerSec, DefaultRecoveryResetTime * TicksPerSec - 1}

\* FeatureData::getFeature / RealTimeData::getCustomFeature: 0.0 when absent
getFeature(features, name) ==
  IF name \in DOMAIN features THEN features[name] ELSE 0

(***************************************************************************)
(* Alarm plugins: pure functions and predicates on the plugin state.       *)
(***************************************************************************)
\* variant: the index of the line is counted from 0
calculateAlarmLevel_zeroBased(score, alarm_lines) ==
  IF Len(alarm_lines) = 0 THEN 0
  ELSE IF \E i \in 1..Len(alarm_lines) : score <= alarm_lines[i]
    THEN (CHOOSE i \in 1..Len(alarm_lines) :
            /\ score <= alarm_lines[i]
            /\ \A j \in 1..(i - 1) : ~(score <= alarm_lines[j])) - 1
    ELSE Len(alarm_lines)

calculateAlarmLevel(score, alarm_lines) ==
  IF Len(alarm_lines) = 0 THEN 0
  ELSE IF \E i \in 1..Len(alarm_lines) : score <= alarm_lines[i]
    THEN CHOOSE i \in 1..Len(alarm_lines) :
           /\ score <= alarm_lines[i]
           /\ \A j \in 1..(i - 1) : ~(score <= alarm_lines[j])
    ELSE Len(alarm_lines) + 1

\* variant: the alarm interval is not checked
shouldTriggerAlarm_noInterval(health_name, score) ==
  LET current_count == IF health_name \in DOMAIN alarm_count_
                         THEN alarm_count_[health_name] ELSE 0
      tolerable_count == IF health_name \in DOMAIN tolerable_count_
                           THEN tolerable_count_[health_name] ELSE 0
  IN ~ (current_count < tolerable_count)

\* variant: the alarm interval has to be exceeded
shouldTriggerAlarm_strictInterval(health_name, score) ==
  LET current_count == IF health_name \in DOMAIN alarm_count_
                         THEN alarm_count_[health_name] ELSE 0
      tolerable_count == IF health_name \in DOMAIN tolerable_count_
                           THEN tolerable_count_[health_name] ELSE 0
  IN /\ ~ (/\ health_name \in DOMAIN last_alarm_time_
           /\ DurationSeconds(last_alarm_time_[health_name], now) <= alarm_interval_)
     /\ ~ (current_count < tolerable_count)

\* ScoreAlarmPluginBase::shouldTriggerAlarm
shouldTriggerAlarm(health_name, score) ==
  LET current_count == IF health_name \in DOMAIN alarm_count_
                         THEN alarm_count_[health_name] ELSE 0
      tolerable_count == IF health_name \in DOMAIN tolerable_count_
                           THEN tolerable_count_[health_name] ELSE 0
  IN /\ ~ (/\ health_name \in DOMAIN last_alarm_time_
           /\ DurationSeconds(last_alarm_time_[health_name], now) < alarm_interval_)
     /\ ~ (current_count < tolerable_count)

\* StatusAlarmPluginBase::shouldTriggerStatusAlarm
shouldTriggerStatusAlarm(status) ==
  LET current_count == IF status \in DOMAIN st_alarm_count_
                         THEN st_alarm_count_[status] ELSE 0
      max_count == DefaultMaxAlarmNum
      recovery_time == DefaultRecoveryResetTime
  IN /\ alarm_enabled_
     /\ ~ (current_count >= max_count)
     /\ ~ (/\ status \in DOMAIN st_last_alarm_time_
           /\ DurationSeconds(st_last_alarm_time_[status], now) < recovery_time)

\* StatusAlarm4Plugin::processStatusAlarm
processStatusAlarm(status) == status \in AlarmRuleCodes

\* map[key] = value for every key of keys, the other entries kept
Assign(map, keys, value(_)) ==
  [k \in DOMAIN map \cup keys |-> IF k \in keys THEN value(k) ELSE map[k]]

(***************************************************************************)
(* Alarm plugins: processEvent.                                            *)
(***************************************************************************)
AlarmInit ==
  /\ last_alarm_time_ = EmptyRecord
  /\ alarm_count_ = EmptyRecord
  /\ tolerable_count_ = EmptyRecord
  /\ st_last_alarm_time_ = EmptyRecord
  /\ st_alarm_count_ = EmptyRecord
  /\ ev_calls = 0
  /\ ev_ticks = 0
  /\ ev_result = EmptyRecord
  /\ ev_seen = [plugin |-> None, at |-> 0, keys |-> {}, fired |-> {},
                scores |-> EmptyRecord]
  /\ fire_log = [k \in HealthNames |-> <<>>]
  /\ st_fire_log = [c \in StatusCodes |-> <<>>]
  /\ breach_run = [k \in HealthNames |-> 0]
  /\ fire_breaches = [k \in HealthNames |-> -1]

\* EventPluginBase::generateEvent
generateEvent(event_type, event_name, severity_level) ==
  [k \in {"event_type", "event_name", "severity_level", "timestamp"} |->
     CASE k = "event_type" -> event_type
       [] k = "event_name" -> event_name
       [] k = "severity_level" -> severity_level
       [] OTHER -> now]

\* does the score breach, i.e. is it at or below some alarm line
Breaches(score) == \E i \in 1..Len(alarm_lines_) : score <= alarm_lines_[i]

\* ScoreAlarmPluginBase::processEvent with ScoreAlarm5Plugin::processAlarm
ScoreProcessEvent(input) ==
  /\ ev_calls < MaxEvents
  /\ ev_calls' = ev_calls + 1
  /\ LET health_scores ==
           IF input.type \in {"FEATURE_DATA", "REAL_TIME"}
             THEN [k \in HealthNames |-> getFeature(input.features, k)]
             ELSE EmptyRecord
         firing == {k \in DOMAIN health_scores :
                       shouldTriggerAlarm(k, health_scores[k])}
         alarm_triggered == firing # {}
         \* the events are written in map order: the last firing key stays
         last == CHOOSE i \in 1..Len(health_definitions_) :
                   /\ health_definitions_[i] \in firing
                   /\ \A j \in (i + 1)..Len(health_definitions_) :
                         health_definitions_[j] \notin firing
         runs == [k \in HealthNames |->
                    IF k \in DOMAIN health_scores /\ Breaches(health_scores[k])
                      THEN breach_run[k] + 1 ELSE breach_run[k]]
     IN /\ last_alarm_time_' = Assign(last_alarm_time_, firing, LAMBDA k : now)
        /\ alarm_count_' =
             Assign(alarm_count_, firing,
                    LAMBDA k : IF k \in DOMAIN alarm_count_
                                 THEN alarm_count_[k] + 1 ELSE 1)
        /\ tolerable_count_' = Assign(tolerable_count_, firing, LAMBDA k : 0)
        /\ ev_result' =
             IF alarm_triggered
               THEN generateEvent("SCORE_ALARM", health_definitions_[last],
                      calculateAlarmLevel(health_scores[health_definitions_[last]],
                                          alarm_lines_))
               ELSE EmptyRecord
        /\ ev_seen' = [plugin |-> "score", at |-> now,
                       keys |-> DOMAIN health_scores, fired |-> firing,
                       scores |-> health_scores]
        /\ fire_log' = [k \in HealthNames |->
                          IF k \in firing THEN Append(fire_log[k], now)
                                          ELSE fire_log[k]]
        /\ breach_run' = [k \in HealthNames |-> IF k \in firing THEN 0 ELSE runs[k]]
        /\ fire_breaches' = [k \in HealthNames |->
                               IF k \in firing THEN runs[k] ELSE fire_breaches[k]]
  /\ UNCHANGED <<now, ev_ticks, st_last_alarm_time_, st_alarm_count_, st_fire_log>>

\* the status code StatusAlarmPluginBase::processEvent reads from its input
InputStatus(input) ==
  IF input.type \in {"STATUS_DATA", "FEATURE_DATA"} THEN input.status ELSE 0

\* StatusAlarmPluginBase::processEvent
StatusProcessEvent(input) ==
  /\ ev_calls < MaxEvents
  /\ ev_calls' = ev_calls + 1
  /\ LET status == InputStatus(input)
         fires == shouldTriggerStatusAlarm(status) /\ processStatusAlarm(status)
         firing == IF fires THEN {status} ELSE {}
     IN /\ st_last_alarm_time_' = Assign(st_last_alarm_time_, firing, LAMBDA c : now)
        /\ st_alarm_count_' =
             Assign(st_alarm_count_, firing,
                    LAMBDA c : IF c \in DOMAIN st_alarm_count_
                                 THEN st_alarm_count_[c] + 1 ELSE 1)
        /\ ev_result' = IF fires THEN generateEvent("STATUS_ALARM", status, 1)
                                 ELSE EmptyRecord
        /\ ev_seen' = [plugin |-> "status", at |-> now,
                       keys |-> {status}, fired |-> firing,
                       scores |-> EmptyRecord]
        /\ st_fire_log' = [c \in StatusCodes |->
                             IF c \in firing THEN Append(st_fire_log[c], now)
                                             ELSE st_fire_log[c]]
  /\ UNCHANGED <<now, ev_ticks, last_alarm_time_, alarm_count_, tolerable_count_,
                 fire_log, breach_run, fire_breaches>>

\* time passes between two invocations
AlarmTick(gap) ==
  /\ ev_ticks < MaxTicks
  /\ ev_ticks' = ev_ticks + 1
  /\ now' = now + gap
  /\ UNCHANGED <<last_alarm_time_, alarm_count_, tolerable_count_,
                 st_last_alarm_time_, st_alarm_count_, ev_calls, ev_result,
                 ev_seen, fire_log, st_fire_log, breach_run, fire_breaches>>

(***************************************************************************)
(* Registry and chain orchestrator: configuration and inputs.              *)
(***************************************************************************)
chainVars == <<plugin_factories_, plugin_chains_, plugin_instances_, chain_mutex,
               thread, done, next_id, stage_made, chain_ops, registry_ops>>

regVars == <<reg_thread, reg_done, reg_log, reg_calls>>
\* the variables of the parts that the specifications above leave alone
extVars == <<applied, healthVars, monVars, lockVars, steadyVars>>

Threads == {"t1", "t2"}
PluginNames == {"A", "B"}
Factories == {"f1", "f2"}
ChainNames == {"c1", "c2"}
\* a ParameterSet that validateParameters accepts ("good"), one that it rejects
\* ("bad"), and nullptr ("null")
ChainConfig(chain_name, plugin_names, plugin_params) ==
  [chain_name |-> chain_name, plugin_names |-> plugin_names,
   plugin_params |-> plugin_params]
\* the ChainConfig values passed to createChain
CreateChainInputs ==
  { ChainConfig("c1", <<"A">>, <<"good">>),
    ChainConfig("c1", <<"A">>, <<"bad">>),
    ChainConfig("c1", <<"A">>, <<"null">>),
    ChainConfig("c1", <<"A", "B">>, <<"good", "good">>),
    ChainConfig("c1", <<"A", "B">>, <<"good", "bad">>),
    ChainConfig("c1", <<"A", "A">>, <<"good", "good">>),
    ChainConfig("c2", <<"B">>, <<"good">>),
    ChainConfig("", <<"A">>, <<"good">>),
    ChainConfig("c1", <<>>, <<>>) }
\* the ParameterSet values passed to addPluginToChain
AddParams == {"good"}
\* input_data of executeChain: a reading or nullptr
ExecInputs == {"reading", "null"}
\* the caller's output record before the call
OutputRecords == { [k \in {"old"} |-> 0] }

NoConfig == ChainConfig("", <<>>, <<>>)
\* a thread that is not inside a chain manager call
IdleThread ==
  [pc |-> "idle", op |-> None, chain |-> "", i |-> 0, input |-> "null",
   cur |-> EmptyRecord, out |-> EmptyRecord, pre |-> EmptyRecord, log |-> <<>>]
NoCall ==
  [seq |-> 0, op |-> None, chain |-> "", config |-> NoConfig,
   i |-> 0, ret |-> FALSE, why |-> None, cur |-> EmptyRecord,
   out |-> EmptyRecord, pre |-> EmptyRecord, log |-> <<>>]

RECURSIVE Zeros(_)
Zeros(n) == IF n = 0 THEN <<>> ELSE Append(Zeros(n - 1), 0)

\* remove the entry of key from map
Erase(map, key) == [k \in DOMAIN map \ {key} |-> map[k]]
\* remove the element at position index (1-based) from a sequence
EraseAt(seq, index) ==
  SubSeq(seq, 1, index - 1) \o SubSeq(seq, index + 1, Len(seq))

ChainInit ==
  /\ plugin_factories_ = EmptyRecord
  /\ plugin_chains_ = EmptyRecord
  /\ plugin_instances_ = EmptyRecord
  /\ chain_mutex = None
  /\ thread = [t \in Threads |-> IdleThread]
  /\ done = NoCall
  /\ next_id = 1
  /\ stage_made = EmptyRecord
  /\ chain_ops = 0
  /\ registry_ops = 0

(***************************************************************************)
(* Registry (PluginManager).  Every operation holds PluginManager::mutex_  *)
(* for its map access and is one step.                                     *)
(***************************************************************************)
\* PluginManager::isPluginAvailable
isPluginAvailable(plugin_name) == plugin_name \in DOMAIN plugin_factories_

\* PluginManager::getPluginFactory: the factory or None
getPluginFactory(plugin_name) ==
  IF plugin_name \in DOMAIN plugin_factories_
    THEN plugin_factories_[plugin_name] ELSE None

\* validateParameters of the created plugin
validateParameters(params) == params = "good"

\* a null std::shared_ptr<IPlugin>
NullPlugin ==
  [id |-> 0, factory |-> None, initialized_ |-> FALSE, params |-> "null", calls |-> 0]

\* IPluginFactory::createPlugin: the factories of plugin_factories.cpp return
\* a new object; "fnull" is a factory whose createPlugin returns nullptr
NullFactory == "fnull"
\* variant: a factory hands out one shared object
factoryCreatePlugin_shared(factory, id) ==
  IF factory = NullFactory THEN NullPlugin
  ELSE [id |-> 1, factory |-> factory, initialized_ |-> FALSE,
        params |-> "null", calls |-> 0]

factoryCreatePlugin(factory, id) ==
  IF factory = NullFactory THEN NullPlugin
  ELSE [id |-> id, factory |-> factory, initialized_ |-> FALSE,
        params |-> "null", calls |-> 0]

\* PluginManager::createPlugin(name): the new, uninitialized instance or nullptr
createPluginByName(plugin_name, id) ==
  IF getPluginFactory(plugin_name) = None THEN NullPlugin
  ELSE factoryCreatePlugin(getPluginFactory(plugin_name), id)

\* variant: the instance is returned although its initialize failed
initializePlugin_keepFailed(plugin, params) ==
  IF plugin # NullPlugin /\ params # "null"
    THEN [plugin EXCEPT !.initialized_ = validateParameters(params),
                        !.params = params]
    ELSE plugin

\* the second half of PluginManager::createPlugin(name, params): initialize
\* the instance when there is one and params is not null
initializePlugin(plugin, params) ==
  IF plugin # NullPlugin /\ params # "null"
    THEN IF validateParameters(params)
           THEN [plugin EXCEPT !.initialized_ = TRUE, !.params = params]
           ELSE NullPlugin
    ELSE plugin

\* PluginManager::createPlugin(name, params): the instance or nullptr;
\* id is the identity of the object the factory makes
createPlugin(plugin_name, params, id) ==
  initializePlugin(createPluginByName(plugin_name, id), params)

RegistryStep ==
  /\ registry_ops < MaxRegistryOps
  /\ registry_ops' = registry_ops + 1
  /\ UNCHANGED <<plugin_chains_, plugin_instances_, chain_mutex, thread, done,
                 next_id, stage_made, chain_ops>>

\* registerAllPlugins of plugin_factories.cpp
registerAllPlugins ==
  /\ RegistryStep
  /\ plugin_factories_' =
       [n \in DOMAIN plugin_factories_ \cup PluginNames |->
          IF n \in PluginNames THEN "f1" ELSE plugin_factories_[n]]

\* variant: an existing entry is kept, as std::map::insert would
storeFactory_keepFirst(plugin_name, factory) ==
  IF plugin_name \in DOMAIN plugin_factories_
    THEN plugin_factories_
    ELSE Assign(plugin_factories_, {plugin_name}, LAMBDA n : factory)

\* plugin_factories_[plugin_name] = factory
storeFactory(plugin_name, factory) ==
  Assign(plugin_factories_, {plugin_name}, LAMBDA n : factory)

registerPluginFactory(plugin_name, factory) ==
  /\ RegistryStep
  /\ plugin_factories_' = storeFactory(plugin_name, factory)

unregisterPlugin(plugin_name) ==
  /\ RegistryStep
  /\ plugin_factories_' = IF plugin_name \in DOMAIN plugin_factories_
                            THEN Erase(plugin_factories_, plugin_name)
                            ELSE plugin_factories_

(***************************************************************************)
(* Registry (PluginManager) as its caller threads see it.  register,       *)
(* unregister and clear hold PluginManager::mutex_ from entry to return    *)
(* and are one step.  createPlugin(name, params) holds it only inside      *)
(* createPlugin(name); initialize runs after the lock is released and is   *)
(* a second step.                                                          *)
(***************************************************************************)
\* the arguments registerPluginFactory is called with: "" is the empty name,
\* None the null factory
RegisterNames == PluginNames \cup {""}
RegisterFactories == Factories \cup {NullFactory, None}
\* the ParameterSet values passed to createPlugin
CreateParams == {"good", "bad", "null"}

IdleRegistryThread ==
  [pc |-> "idle", name |-> "", params |-> "null", plugin |-> NullPlugin,
   found |-> None, at |-> 0]
NoRegistryCall ==
  [seq |-> 0, t |-> None, op |-> None, name |-> "", factory |-> None,
   params |-> "null", ret |-> FALSE, plugin |-> NullPlugin, found |-> None,
   at |-> 0, before |-> {}, after |-> {}, input |-> "null", output |-> "null"]

RegistryInit ==
  /\ reg_thread = [t \in Threads |-> IdleRegistryThread]
  /\ reg_done = NoRegistryCall
  /\ reg_log = <<>>
  /\ reg_calls = 0

\* the factory that the calls of log leave registered under plugin_name
RECURSIVE LastRegistered(_, _)
LastRegistered(log, plugin_name) ==
  IF Len(log) = 0 THEN None
  ELSE LET e == log[Len(log)]
       IN IF e.op = "clearAllPlugins" THEN None
          ELSE IF e.name = plugin_name
            THEN IF e.op = "registerPluginFactory" THEN e.factory ELSE None
          ELSE LastRegistered(SubSeq(log, 1, Len(log) - 1), plugin_name)

\* thread t starts a registry call
RegistryCall(t) ==
  /\ reg_thread[t].pc = "idle"
  /\ reg_calls < MaxRegistryCalls
  /\ reg_calls' = reg_calls + 1
  /\ UNCHANGED <<plugin_chains_, plugin_instances_, chain_mutex, thread, done,
                 stage_made, chain_ops, registry_ops>>

\* PluginManager::registerPluginFactory(name, factory) called by thread t
registerPluginFactoryBy(t, plugin_name, factory) ==
  /\ RegistryCall(t)
  /\ LET ok == factory # None /\ plugin_name # ""
     IN /\ plugin_factories_' = IF ok THEN storeFactory(plugin_name, factory)
                                      ELSE plugin_factories_
        /\ reg_log' = IF ok
                        THEN Append(reg_log, [op |-> "registerPluginFactory",
                                              name |-> plugin_name,
                                              factory |-> factory])
                        ELSE reg_log
        /\ reg_done' = [NoRegistryCall EXCEPT
                          !.seq = reg_calls + 1, !.t = t,
                          !.op = "registerPluginFactory", !.name = plugin_name,
                          !.factory = factory, !.ret = ok,
                          !.before = DOMAIN plugin_factories_,
                          !.after = DOMAIN plugin_factories_']
  /\ UNCHANGED <<reg_thread, next_id>>

\* PluginManager::unregisterPlugin called by thread t
unregisterPluginBy(t, plugin_name) ==
  /\ RegistryCall(t)
  /\ plugin_factories_' = IF plugin_name \in DOMAIN plugin_factories_
                            THEN Erase(plugin_factories_, plugin_name)
                            ELSE plugin_factories_
  /\ reg_log' = Append(reg_log, [op |-> "unregisterPlugin", name |-> plugin_name,
                                 factory |-> None])
  /\ reg_done' = [NoRegistryCall EXCEPT
                    !.seq = reg_calls + 1, !.t = t, !.op = "unregisterPlugin",
                    !.name = plugin_name,
                    !.ret = (plugin_name \in DOMAIN plugin_factories_),
                    !.before = DOMAIN plugin_factories_,
                    !.after = DOMAIN plugin_factories_']
  /\ UNCHANGED <<reg_thread, next_id>>

\* PluginManager::clearAllPlugins called by thread t
clearAllPlugins(t) ==
  /\ RegistryCall(t)
  /\ plugin_factories_' = EmptyRecord
  /\ reg_log' = Append(reg_log, [op |-> "clearAllPlugins", name |-> "",
                                 factory |-> None])
  /\ reg_done' = [NoRegistryCall EXCEPT
                    !.seq = reg_calls + 1, !.t = t, !.op = "clearAllPlugins",
                    !.ret = TRUE, !.before = DOMAIN plugin_factories_]
  /\ UNCHANGED <<reg_thread, next_id>>

\* what the caller of createPlugin(name, params) gets back
CreateReturned(seq, t, plugin_name, params, plugin, found, at) ==
  [NoRegistryCall EXCEPT
     !.seq = seq, !.t = t, !.op = "createPlugin", !.name = plugin_name,
     !.params = params, !.plugin = plugin, !.ret = (plugin # NullPlugin),
     !.found = found, !.at = at]

\* createPlugin(name, params) of thread t up to the release of the lock:
\* createPlugin(name) looks the factory up and lets it make the object; the
\* call returns here unless there is an object and a parameter set
createPluginLookup(t, plugin_name, params) ==
  /\ RegistryCall(t)
  /\ LET plugin == createPluginByName(plugin_name, next_id)
         found == getPluginFactory(plugin_name)
     IN /\ next_id' = IF found # None /\ found # NullFactory
                        THEN next_id + 1 ELSE next_id
        /\ IF plugin # NullPlugin /\ params # "null"
             THEN /\ reg_thread' =
                       [reg_thread EXCEPT ![t] =
                          [pc |-> "initialize", name |-> plugin_name,
                           params |-> params, plugin |-> plugin,
                           found |-> found, at |-> Len(reg_log)]]
                  /\ UNCHANGED reg_done
             ELSE /\ reg_done' = CreateReturned(reg_calls + 1, t, plugin_name,
                                                params, plugin, found,
                                                Len(reg_log))
                  /\ UNCHANGED reg_thread
  /\ UNCHANGED <<plugin_factories_, reg_log>>

\* createPlugin(name, params) of thread t after the lock: plugin->initialize
\* and the return
createPluginInitialize(t) ==
  /\ reg_thread[t].pc = "initialize"
  /\ reg_done' = CreateReturned(reg_calls, t, reg_thread[t].name,
                                reg_thread[t].params,
                                initializePlugin(reg_thread[t].plugin,
                                                 reg_thread[t].params),
                                reg_thread[t].found, reg_thread[t].at)
  /\ reg_thread' = [reg_thread EXCEPT ![t] = IdleRegistryThread]
  /\ UNCHANGED <<plugin_factories_, reg_log, reg_calls, next_id, plugin_chains_,
                 plugin_instances_, chain_mutex, thread, done, stage_made,
                 chain_ops, registry_ops>>

\* variant: null arguments are passed on to algorithm()
process_noNullCheck(plugin, input, output, ok) ==
  IF ~plugin.initialized_ THEN FALSE ELSE ok

\* AlgorithmWork::process(input, output) on a plugin instance; ok is the
\* result of its algorithm() on these arguments
process(plugin, input, output, ok) ==
  IF ~plugin.initialized_ THEN FALSE
  ELSE IF input = "null" \/ output = "null" THEN FALSE
  ELSE ok

\* thread t calls process(input, output) on the instance that the last
\* createPlugin returned
processBy(t, input, output, ok) ==
  /\ reg_done.op \in {"createPlugin", "process"}
  /\ reg_done.plugin # NullPlugin
  /\ RegistryCall(t)
  /\ reg_done' = [reg_done EXCEPT
                    !.seq = reg_calls + 1, !.t = t, !.op = "process",
                    !.input = input, !.output = output,
                    !.ret = process(reg_done.plugin, input, output, ok)]
  /\ UNCHANGED <<plugin_factories_, reg_log, reg_thread, next_id>>

(***************************************************************************)
(* Chain orchestrator (PluginChainManager).  Every operation takes         *)
(* PluginChainManager::mutex_ with a lock_guard on entry and releases it   *)
(* on return.  createChain and executeChain are one step per stage; the    *)
(* other operations are one step.                                          *)
(***************************************************************************)
\* variant: the operations take no lock
CanLock_noMutex == TRUE

\* std::lock_guard<std::mutex> lock(mutex_) can be taken
CanLock == chain_mutex = None

\* thread t enters a chain manager operation
ChainCall(t) ==
  /\ thread[t].pc = "idle"
  /\ CanLock
  /\ chain_ops < MaxChainOps
  /\ chain_ops' = chain_ops + 1

\* the record of the call that started as call number seq, at its return
Returned(seq, op, chain_name, ret, why) ==
  [NoCall EXCEPT !.seq = seq, !.op = op, !.chain = chain_name,
                 !.ret = ret, !.why = why]

\* variant: the plugin names are not looked up in the registry
CreateChainRejects_noLookup(config) ==
  \/ config.chain_name = ""
  \/ config.plugin_names = <<>>

\* the checks of createChain before it stores the config
CreateChainRejects(config) ==
  \/ config.chain_name = ""
  \/ config.plugin_names = <<>>
  \/ \E i \in 1..Len(config.plugin_names) : ~isPluginAvailable(config.plugin_names[i])

\* createChain up to the call of initializeChainPlugins
createChain(t, config) ==
  /\ ChainCall(t)
  /\ IF CreateChainRejects(config)
       THEN /\ done' = [Returned(chain_ops + 1, "createChain", config.chain_name,
                                 FALSE, "rejected") EXCEPT !.config = config]
            /\ UNCHANGED <<plugin_chains_, chain_mutex, stage_made, thread>>
       ELSE /\ plugin_chains_' =
                 Assign(plugin_chains_, {config.chain_name}, LAMBDA c : config)
            /\ stage_made' =
                 Assign(stage_made, {config.chain_name},
                        LAMBDA c : Zeros(Len(config.plugin_names)))
            /\ chain_mutex' = t
            /\ thread' = [thread EXCEPT ![t] =
                 [IdleThread EXCEPT !.pc = "create", !.op = "createChain",
                                    !.chain = config.chain_name, !.i = 1]]
            /\ UNCHANGED done
  /\ UNCHANGED <<plugin_factories_, plugin_instances_, next_id, registry_ops>>

\* one iteration of the loop of initializeChainPlugins, and the return after
\* the last one
initializeChainPlugins(t) ==
  /\ thread[t].pc = "create"
  /\ LET chain_name == thread[t].chain
         config == plugin_chains_[chain_name]
         i == thread[t].i
         plugin_name == config.plugin_names[i]
         params == IF i <= Len(config.plugin_params)
                     THEN config.plugin_params[i] ELSE "null"
         plugin == createPlugin(plugin_name, params, next_id)
         old == IF chain_name \in DOMAIN plugin_instances_
                  THEN plugin_instances_[chain_name] ELSE EmptyRecord
         ret(r, why) == [Returned(chain_ops, "createChain", chain_name, r, why)
                           EXCEPT !.config = config, !.i = i]
     IN IF plugin = NullPlugin
          THEN /\ thread' = [thread EXCEPT ![t] = IdleThread]
               /\ done' = ret(FALSE, "init_failed")
               /\ chain_mutex' = None
               /\ next_id' = IF getPluginFactory(plugin_name) = None
                               THEN next_id ELSE next_id + 1
               /\ UNCHANGED <<plugin_instances_, stage_made>>
          ELSE /\ plugin_instances_' =
                    Assign(plugin_instances_, {chain_name},
                           LAMBDA c : Assign(old, {plugin_name}, LAMBDA n : plugin))
               /\ stage_made' = [stage_made EXCEPT ![chain_name][i] = plugin.id]
               /\ next_id' = next_id + 1
               /\ IF i = Len(config.plugin_names)
                    THEN /\ thread' = [thread EXCEPT ![t] = IdleThread]
                         /\ done' = ret(TRUE, "ok")
                         /\ chain_mutex' = None
                    ELSE /\ thread' = [thread EXCEPT ![t].i = i + 1]
                         /\ UNCHANGED <<chain_mutex, done>>
  /\ UNCHANGED <<plugin_factories_, plugin_chains_, chain_ops, registry_ops>>

addPluginToChain(t, chain_name, plugin_name, params) ==
  /\ ChainCall(t)
  /\ LET ok == chain_name \in DOMAIN plugin_chains_ /\ isPluginAvailable(plugin_name)
     IN /\ done' = Returned(chain_ops + 1, "addPluginToChain", chain_name, ok,
                            IF ok THEN "ok" ELSE "rejected")
        /\ IF ok
             THEN /\ plugin_chains_' = [plugin_chains_ EXCEPT ![chain_name] =
                        [@ EXCEPT !.plugin_names = Append(@, plugin_name),
                                  !.plugin_params = Append(@, params)]]
                  /\ stage_made' = [stage_made EXCEPT ![chain_name] = Append(@, 0)]
             ELSE UNCHANGED <<plugin_chains_, stage_made>>
  /\ UNCHANGED <<plugin_factories_, plugin_instances_, chain_mutex, thread, next_id,
                 registry_ops>>

\* std::find: the first position of plugin_name in names, 0 when absent
FindFirst(names, plugin_name) ==
  IF \E j \in 1..Len(names) : names[j] = plugin_name
    THEN CHOOSE j \in 1..Len(names) :
           /\ names[j] = plugin_name
           /\ \A k \in 1..(j - 1) : names[k] # plugin_name
    ELSE 0

removePluginFromChain(t, chain_name, plugin_name) ==
  /\ ChainCall(t)
  /\ LET known == chain_name \in DOMAIN plugin_chains_
         index == IF known
                    THEN FindFirst(plugin_chains_[chain_name].plugin_names, plugin_name)
                    ELSE 0
         ok == known /\ index > 0
     IN /\ done' = Returned(chain_ops + 1, "removePluginFromChain", chain_name, ok,
                            IF ok THEN "ok" ELSE "rejected")
        /\ IF ok
             THEN /\ plugin_chains_' = [plugin_chains_ EXCEPT ![chain_name] =
                        [@ EXCEPT
                           !.plugin_names = EraseAt(@, index),
                           !.plugin_params = IF index <= Len(@)
                                               THEN EraseAt(@, index) ELSE @]]
                  /\ stage_made' = [stage_made EXCEPT ![chain_name] = EraseAt(@, index)]
             ELSE UNCHANGED <<plugin_chains_, stage_made>>
  /\ UNCHANGED <<plugin_factories_, plugin_instances_, chain_mutex, thread, next_id,
                 registry_ops>>

clearChain(t, chain_name) ==
  /\ ChainCall(t)
  /\ LET ok == chain_name \in DOMAIN plugin_chains_
     IN /\ done' = Returned(chain_ops + 1, "clearChain", chain_name, ok,
                            IF ok THEN "ok" ELSE "rejected")
        /\ plugin_chains_' = IF ok THEN Erase(plugin_chains_, chain_name)
                                   ELSE plugin_chains_
        /\ stage_made' = IF ok THEN Erase(stage_made, chain_name) ELSE stage_made
        /\ plugin_instances_' =
             IF ok /\ chain_name \in DOMAIN plugin_instances_
               THEN Erase(plugin_instances_, chain_name) ELSE plugin_instances_
  /\ UNCHANGED <<plugin_factories_, chain_mutex, thread, next_id, registry_ops>>

(***************************************************************************)
(* executeChain.                                                           *)
(***************************************************************************)
\* PluginResult::operator= is the implicitly defined assignment of the
\* interface class, which has no data member (plugin_base.h): the statement
\* *output_result = *current_result copies no entry of the PluginResultImpl
CopyResult(output_result, current_result) == output_result

\* variant: the entries written so far are copied out on failure as well
OutputOnFailure_partial(output_result, current_result) ==
  Assign(output_result, DOMAIN current_result, LAMBDA k : current_result[k])

\* the caller's output record when executeChain returns false
OutputOnFailure(output_result, current_result) == output_result

\* the plugin instance executePluginInChain finds, or NullPlugin when a lookup fails
ChainInstance(chain_name, plugin_name) ==
  IF /\ chain_name \in DOMAIN plugin_instances_
     /\ plugin_name \in DOMAIN plugin_instances_[chain_name]
    THEN plugin_instances_[chain_name][plugin_name]
    ELSE NullPlugin

\* AlgorithmWork::process before it calls algorithm()
ProcessRejects(plugin, input) ==
  \/ ~plugin.initialized_
  \/ input = "null"

\* variant: the loop walks the list from its end
StageAt_reversed(plugin_names, i) == plugin_names[Len(plugin_names) + 1 - i]

\* the plugin name that the loop of executeChain runs at index i (1-based)
StageAt(plugin_names, i) == plugin_names[i]

\* variant: the loop does not look at the stage's return value
AfterStage_ignoreFailure(ok, i, n) == IF i = n THEN "done" ELSE "next"

\* what the loop of executeChain does after stage i of n returned ok
AfterStage(ok, i, n) ==
  IF ~ok THEN "fail" ELSE IF i = n THEN "done" ELSE "next"

\* executeChain up to the first iteration of the loop
executeChain(t, chain_name, input_data, output_result) ==
  /\ ChainCall(t)
  /\ LET ret(r, why, out) ==
           [Returned(chain_ops + 1, "executeChain", chain_name, r, why)
              EXCEPT !.out = out, !.pre = output_result]
     IN IF chain_name \notin DOMAIN plugin_chains_
          THEN /\ done' = ret(FALSE, "unknown_chain",
                              OutputOnFailure(output_result, EmptyRecord))
               /\ UNCHANGED <<chain_mutex, thread>>
          ELSE IF plugin_chains_[chain_name].plugin_names = <<>>
            THEN /\ done' = ret(TRUE, "ok", CopyResult(output_result, EmptyRecord))
                 /\ UNCHANGED <<chain_mutex, thread>>
            ELSE /\ thread' = [thread EXCEPT ![t] =
                      [IdleThread EXCEPT !.pc = "exec", !.op = "executeChain",
                         !.chain = chain_name, !.i = 1, !.input = input_data,
                         !.out = output_result, !.pre = output_result]]
                 /\ chain_mutex' = t
                 /\ UNCHANGED done
  /\ UNCHANGED <<plugin_factories_, plugin_chains_, plugin_instances_, next_id,
                 stage_made, registry_ops>>

\* one iteration of the loop of executeChain: executePluginInChain for stage i,
\* then the return or the next index.  ok is the result of the plugin's
\* algorithm() on this input.
executePluginInChain(t, ok) ==
  /\ thread[t].pc = "exec"
  /\ LET th == thread[t]
         chain_name == th.chain
         config == plugin_chains_[chain_name]
         i == th.i
         plugin_name == StageAt(config.plugin_names, i)
         plugin == ChainInstance(chain_name, plugin_name)
         ran == plugin # NullPlugin /\ ~ProcessRejects(plugin, th.input)
         success == ran /\ ok
         \* what this iteration did: the index, the name declared at that index,
         \* the name it ran, the instance it ran, the instance createChain made
         \* for the index, and whether the stage succeeded
         entry == [pos |-> i, decl |-> config.plugin_names[i], name |-> plugin_name,
                   id |-> plugin.id, made |-> stage_made[chain_name][i],
                   calls |-> plugin.calls, ok |-> success]
         cur == IF success
                  THEN Assign(th.cur, {plugin_name}, LAMBDA n : plugin.id)
                  ELSE th.cur
         log == Append(th.log, entry)
         after == AfterStage(success, i, Len(config.plugin_names))
         ret(r, why, out) ==
           [Returned(chain_ops, "executeChain", chain_name, r, why)
              EXCEPT !.i = i, !.cur = cur, !.log = log, !.out = out, !.pre = th.pre]
     IN /\ ~ran => ok
        /\ plugin_instances_' =
             IF success
               THEN [plugin_instances_ EXCEPT ![chain_name][plugin_name].calls = @ + 1]
               ELSE plugin_instances_
        /\ CASE after = "fail" ->
                  /\ thread' = [thread EXCEPT ![t] = IdleThread]
                  /\ done' = ret(FALSE, IF plugin = NullPlugin THEN "no_instance"
                                                               ELSE "stage_failed",
                                 OutputOnFailure(th.out, cur))
                  /\ chain_mutex' = None
             [] after = "done" ->
                  /\ thread' = [thread EXCEPT ![t] = IdleThread]
                  /\ done' = ret(TRUE, "ok", CopyResult(th.out, cur))
                  /\ chain_mutex' = None
             [] OTHER ->
                  /\ thread' = [thread EXCEPT ![t] =
                       [th EXCEPT !.i = i + 1, !.log = log, !.cur = cur]]
                  /\ UNCHANGED <<chain_mutex, done>>
  /\ UNCHANGED <<plugin_factories_, plugin_chains_, next_id, stage_made, chain_ops,
                 registry_ops>>

\* the stage logs of the executions in flight and of the call that returned last
ExecutionLogs == {thread[t].log : t \in Threads} \cup {done.log}

(***************************************************************************)
(* Realtime health evaluation (RealtimeHealthPluginBase /                  *)
(* CompRealtimeHealth34Plugin, evaluation_plugin_base.cpp).                *)
(* A score is an integer number of ninths of a point, so that the scores   *)
(* 100 - i * 100 / 3 and their averages over three statistics are exact:   *)
(* 900 is the score 100.0.  A composed health score is the pair            *)
(* <<weighted_sum, total_weight>> of the quotient the code computes, with  *)
(* the weights in tenths (0.4 is 4).                                       *)
(***************************************************************************)
\* RealtimeHealthPluginBase::offline_length_, in seconds (a configured value)
health_offline_length_ == 2
\* the neutral default score 100.0
DefaultScore == 900
\* the values validateParameters reads for minimum_quantity and close_width
HealthParams == [minimum_quantity : {1, 2}, close_width : {1, 2}]
\* the clock advance between two evaluateHealth invocations
HealthGaps == {1, health_offline_length_ * TicksPerSec + 1,
               (health_offline_length_ + 1) * TicksPerSec}

\* parseFeatureStats: the one feature-statistic spec of the plugin
feature_stat ==
  [analysis_features |-> "mean_hf", analysis_status |-> "running",
   statistic |-> <<"mean", "std", "max">>, result_key |-> "vibration_health",
   \* stat.result_key + "_" + method, per method
   method_keys |-> <<"vibration_health_mean", "vibration_health_std",
                     "vibration_health_max">>,
   thresholds |-> <<100, 200, 300>>]
\* parseHealthConfigs: the one declared health output of the plugin
health_config ==
  [name |-> "overall_health", formula |-> "weighted_average",
   weights |-> <<4, 3, 3>>,
   dependencies |-> <<"vibration_health", "current_health", "temperature_health">>]

\* what evaluateHealth is given: StatusData, FeatureData (its features may
\* hold "status" and "mean_hf"), RealTimeData (its fields become features,
\* mean_hf among them)
HealthInputs ==
  [type : {"STATUS_DATA"}, status : {0, 1}, features : {EmptyRecord}]
    \cup [type : {"FEATURE_DATA"}, status : {0},
          features : { [k \in {"status"} |-> 1], [k \in {"mean_hf"} |-> 50] }
                       \cup { [k \in {"status", "mean_hf"} |->
                                 IF k = "status" THEN s ELSE v] :
                               s \in {0, 1}, v \in {50, 250} }]
    \cup [type : {"REAL_TIME"}, status : {0},
          features : { [k \in {"mean_hf"} |-> 50] }]

RECURSIVE SeqSum(_)
SeqSum(s) == IF s = <<>> THEN 0 ELSE Head(s) + SeqSum(Tail(s))

\* calculateStatistic(data, method) <= threshold, for non-empty data and a
\* threshold >= 0.  The standard deviation of one sample is sqrt(0 / 0), a
\* NaN, and every comparison with it is false
StatisticAtMost(data, method, threshold) ==
  LET n == Len(data)
      sum == SeqSum(data)
      sum_sq == SeqSum([i \in 1..n |-> data[i] * data[i]])
  IN CASE method = "mean" -> sum <= threshold * n
       [] method = "max" -> \A i \in 1..n : data[i] <= threshold
       [] method = "std" ->
            /\ n > 1
            /\ n * sum_sq - sum * sum <= threshold * threshold * n * (n - 1)

\* convertToScore(calculateStatistic(data, method), thresholds, upper_limit)
convertToScore(data, method, thresholds) ==
  LET below == {i \in 1..Len(thresholds) : StatisticAtMost(data, method, thresholds[i])}
  IN IF thresholds = <<>> THEN DefaultScore
     ELSE IF below = {} THEN 0
     ELSE LET i == CHOOSE j \in below : \A k \in below : j <= k
          IN DefaultScore - ((i - 1) * DefaultScore) \div Len(thresholds)

\* calculateFeatureHealth once the data suffice: a score per statistic and
\* their average under result_key.  cleanData and smoothData return the data
\* as they are for the empty clean_formula and move_smooth_param that
\* parseFeatureStats leaves
statisticScores(stat, data) ==
  LET n == Len(stat.statistic)
      score(i) == convertToScore(data, stat.statistic[i], stat.thresholds)
      avg_score == SeqSum([i \in 1..n |-> score(i)]) \div n
  IN [k \in {stat.result_key} \cup {stat.method_keys[i] : i \in 1..n} |->
        IF k = stat.result_key THEN avg_score
        ELSE score(CHOOSE i \in 1..n : stat.method_keys[i] = k)]

\* CompRealtimeHealth34Plugin::calculateFeatureHealth
calculateFeatureHealth(stat, data, minimum_quantity) ==
  IF Len(data) < minimum_quantity
    THEN [k \in {stat.result_key} |-> DefaultScore]
    ELSE statisticScores(stat, data)

\* the loop of calculateOverallHealth over the dependencies that have a
\* weight, from the i-th on: <<weighted_sum, total_weight>>
RECURSIVE WeightedSums(_, _, _)
WeightedSums(config, feature_scores, i) ==
  IF i > Len(config.dependencies) \/ i > Len(config.weights) THEN <<0, 0>>
  ELSE LET rest == WeightedSums(config, feature_scores, i + 1)
       IN IF config.dependencies[i] \in DOMAIN feature_scores
            THEN <<feature_scores[config.dependencies[i]] * config.weights[i] + rest[1],
                   config.weights[i] + rest[2]>>
            ELSE rest

calculateOverallHealth_countUnresolved(config, feature_scores) ==
  LET sums == WeightedSums(config, feature_scores, 1)
      n == IF Len(config.weights) < Len(config.dependencies)
             THEN Len(config.weights) ELSE Len(config.dependencies)
      all_weights == SeqSum(SubSeq(config.weights, 1, n))
  IN IF config.formula = "weighted_average" /\ all_weights > 0
       THEN <<sums[1], all_weights>>
       ELSE <<DefaultScore, 1>>

\* CompRealtimeHealth34Plugin::calculateOverallHealth for one config: the
\* score stored under config.name
calculateOverallHealth(config, feature_scores) ==
  LET sums == WeightedSums(config, feature_scores, 1)
  IN IF config.formula = "weighted_average" /\ sums[2] > 0
       THEN sums
       ELSE <<DefaultScore, 1>>

\* RealtimeHealthPluginBase::offlineCheck: the condition of resetCache(true)
HealthOfflineExpired(current_time) ==
  /\ health_prev_time_ # 0
  /\ DurationSeconds(health_prev_time_, current_time) > health_offline_length_

\* statusCheckAndCacheData: the status the input carries
healthInputStatus(input) ==
  IF input.type = "STATUS_DATA" THEN input.status
  ELSE IF input.type = "FEATURE_DATA" /\ "status" \in DOMAIN input.features
         THEN input.features["status"]
         ELSE 0

\* before the first evaluateHealth of a plugin initialized with p
HealthInit(p) ==
  /\ minimum_quantity_ = p.minimum_quantity
  /\ close_width_ = p.close_width
  /\ health_prev_time_ = 0
  /\ feature_cache_ = EmptyRecord
  /\ time_cache_ = EmptyRecord
  /\ last_health_scores_ = EmptyRecord
  /\ run_count_ = 0
  /\ close_count_ = 0
  /\ health_calls = 0
  /\ health_result = EmptyRecord
  /\ health_ret = TRUE
  /\ health_seen = [running |-> FALSE, expired |-> FALSE, idle |-> 0,
                    gap |-> 0, since |-> 0, size |-> 0, stat_scores |-> EmptyRecord]

\* RealtimeHealthPluginBase::evaluateHealth(input, output), gap ticks after
\* the previous invocation: offlineCheck, statusCheckAndCacheData, then the
\* scores of the feature statistics and of the declared health outputs
\* variant: a rejected reading leaves the result record empty
useLastResult_empty(last_scores) == EmptyRecord

\* the entries evaluateHealth writes to the result record when
\* statusCheckAndCacheData returns false: every entry of last_health_scores_
useLastResult(last_scores) == last_scores

evaluateHealth(input, gap) ==
  /\ health_calls < MaxHealthCalls
  /\ health_calls' = health_calls + 1
  /\ now' = now + gap
  /\ health_prev_time_' = now'
  /\ health_ret' = TRUE
  /\ LET expired == HealthOfflineExpired(now + gap)
         \* resetCache(true)
         fc == IF expired THEN EmptyRecord ELSE feature_cache_
         tc == IF expired THEN EmptyRecord ELSE time_cache_
         run == IF expired THEN 0 ELSE run_count_
         close == IF expired THEN 0 ELSE close_count_
         \* running invocations since creation, or since the last invocation
         \* that came after more than offline_length seconds or was the
         \* close_width-th consecutive one not running
         since == IF health_calls > 0 /\ gap > health_offline_length_ * TicksPerSec
                    THEN 0 ELSE health_seen.since
         stat == feature_stat
     IN IF healthInputStatus(input) = 1
          THEN LET cached == stat.analysis_features \in DOMAIN input.features
                   old == IF stat.analysis_features \in DOMAIN fc
                            THEN fc[stat.analysis_features] ELSE <<>>
                   data == IF cached
                             THEN Append(old, input.features[stat.analysis_features])
                             ELSE old
                   times == IF stat.analysis_status \in DOMAIN tc
                              THEN tc[stat.analysis_status] ELSE <<>>
                   stat_scores == calculateFeatureHealth(stat, data, minimum_quantity_)
                   health_scores ==
                     [k \in {health_config.name} |->
                        calculateOverallHealth(health_config, stat_scores)]
               IN /\ run_count_' = run + 1
                  /\ close_count_' = 0
                  /\ feature_cache_' = [k \in DOMAIN fc \cup {stat.analysis_features} |-> data]
                  /\ time_cache_' =
                       IF cached
                         THEN [k \in DOMAIN tc \cup {stat.analysis_status} |->
                                 Append(times, now + gap)]
                         ELSE tc
                  /\ health_result' = health_scores
                  /\ last_health_scores_' = health_scores
                  /\ health_seen' = [running |-> TRUE, expired |-> expired,
                                     idle |-> 0, gap |-> gap,
                                     since |-> since + 1, size |-> Len(data),
                                     stat_scores |-> stat_scores]
          ELSE /\ run_count_' = 0
               \* resetCache(false) at close_width_: the counters only
               /\ close_count_' = IF close + 1 >= close_width_ THEN 0 ELSE close + 1
               /\ feature_cache_' = fc
               /\ time_cache_' = tc
               /\ health_result' = useLastResult(last_health_scores_)
               /\ UNCHANGED last_health_scores_
               /\ health_seen' = [running |-> FALSE, expired |-> expired,
                                  idle |-> health_seen.idle + 1, gap |-> gap,
                                  since |-> IF health_seen.idle + 1 >= close_width_
                                              THEN 0 ELSE since,
                                  size |-> 0,
                                  stat_scores |-> EmptyRecord]
  /\ UNCHANGED <<minimum_quantity_, close_width_>>

(***************************************************************************)
(* Execution monitor (PluginMonitorManager).  Every operation holds        *)
(* PluginMonitorManager::mutex_ from entry to return and is one step.      *)
(***************************************************************************)
\* execution_time_ms of a recordExecution
ExecutionTimes == {5, 10}

\* a default-constructed PluginMetrics with its plugin_name set; the average
\* is kept as the sum of the execution times, which the code divides by
\* execution_count
NewPluginMetrics(plugin_name) ==
  [plugin_name |-> plugin_name, execution_count |-> 0, success_count |-> 0,
   error_count |-> 0, sum_execution_time_ms |-> 0, max_execution_time_ms |-> 0,
   min_execution_time_ms |-> 0, last_execution_time |-> 0,
   last_error_message |-> ""]

MonitorInit ==
  /\ plugin_metrics_ = EmptyRecord
  /\ monitored_plugins_ = {}
  /\ monitoring_enabled_ = TRUE
  /\ mon_calls = 0
  /\ mon_recorded = [n \in PluginNames |-> 0]
  /\ mon_seen = [op |-> None, plugin_name |-> "", monitored |-> FALSE,
                 enabled |-> TRUE]

\* a call of the monitor manager for plugin_name starts
MonitorCall(op, plugin_name) ==
  /\ mon_calls < MaxMonitorCalls
  /\ mon_calls' = mon_calls + 1
  /\ mon_seen' = [op |-> op, plugin_name |-> plugin_name,
                  monitored |-> plugin_name \in monitored_plugins_,
                  enabled |-> monitoring_enabled_]

\* PluginMonitorManager::startMonitoring
startMonitoring(plugin_name) ==
  /\ MonitorCall("startMonitoring", plugin_name)
  /\ IF monitoring_enabled_
       THEN /\ monitored_plugins_' = monitored_plugins_ \cup {plugin_name}
            /\ plugin_metrics_' =
                 IF plugin_name \in DOMAIN plugin_metrics_
                   THEN plugin_metrics_
                   ELSE Assign(plugin_metrics_, {plugin_name},
                               LAMBDA n : NewPluginMetrics(n))
       ELSE UNCHANGED <<monitored_plugins_, plugin_metrics_>>
  /\ UNCHANGED <<monitoring_enabled_, mon_recorded>>

\* PluginMonitorManager::stopMonitoring
stopMonitoring(plugin_name) ==
  /\ MonitorCall("stopMonitoring", plugin_name)
  /\ monitored_plugins_' = monitored_plugins_ \ {plugin_name}
  /\ UNCHANGED <<plugin_metrics_, monitoring_enabled_, mon_recorded>>

\* PluginMonitorManager::setMonitoringEnabled
setMonitoringEnabled(enabled) ==
  /\ MonitorCall("setMonitoringEnabled", "")
  /\ monitoring_enabled_' = enabled
  /\ UNCHANGED <<plugin_metrics_, monitored_plugins_, mon_recorded>>

\* variant: the execution is recorded for any plugin
recordExecutionReturnsEarly_never(plugin_name) == FALSE

\* the early return of recordExecution
recordExecutionReturnsEarly(plugin_name) ==
  ~monitoring_enabled_ \/ plugin_name \notin monitored_plugins_

\* PluginMonitorManager::recordExecution
recordExecution(plugin_name, success, execution_time_ms, error_message) ==
  /\ MonitorCall("recordExecution", plugin_name)
  /\ mon_recorded' =
       IF monitoring_enabled_ /\ plugin_name \in monitored_plugins_
         THEN [mon_recorded EXCEPT ![plugin_name] = @ + 1]
         ELSE mon_recorded
  /\ IF recordExecutionReturnsEarly(plugin_name)
       THEN UNCHANGED plugin_metrics_
       ELSE LET old == IF plugin_name \in DOMAIN plugin_metrics_
                         THEN plugin_metrics_[plugin_name]
                         ELSE NewPluginMetrics(plugin_name)
                metrics ==
                  [old EXCEPT
                     !.execution_count = @ + 1,
                     !.success_count = IF success THEN @ + 1 ELSE @,
                     !.error_count = IF success THEN @ ELSE @ + 1,
                     !.last_error_message = IF success THEN @ ELSE error_message,
                     !.min_execution_time_ms =
                        IF @ = 0 \/ execution_time_ms < @ THEN execution_time_ms ELSE @,
                     !.max_execution_time_ms =
                        IF execution_time_ms > @ THEN execution_time_ms ELSE @,
                     !.sum_execution_time_ms = @ + execution_time_ms,
                     !.last_execution_time = now]
            IN plugin_metrics_' =
                 Assign(plugin_metrics_, {plugin_name}, LAMBDA n : metrics)
  /\ UNCHANGED <<monitored_plugins_, monitoring_enabled_>>

(***************************************************************************)
(* Specifications.                                                         *)
(***************************************************************************)
(***************************************************************************)
(* The pure functions of the plugins, applied to arguments of their own.   *)
(***************************************************************************)
\* no function has been applied
NoApplication ==
  [fn |-> None, plugin |-> None, statuses |-> <<>>, veto_index |-> -1,
   run_feature_num |-> 1, value |-> 0, list |-> <<>>, result |-> -1,
   config |-> [name |-> "", formula |-> "", weights |-> <<>>, dependencies |-> <<>>],
   feature_scores |-> EmptyRecord, health |-> <<0, 1>>]

\* non-decreasing lists of thresholds (or alarm lines)
AscendingLists ==
  { l \in UNION { [1..n -> {0, 10, 20}] : n \in 0..MaxLen } :
      \A i \in 1..(Len(l) - 1) : l[i] <= l[i + 1] }
\* the values (or scores) the lists are probed with
ProbeValues == {-5, 0, 5, 10, 15, 20, 25}

\* a plugin, its veto_index_ and run_feature_num_ as validateParameters leaves
\* them, and a vector of feature statuses.  Motor97Plugin never assigns the
\* two fields; an empty vector needs empty select_features_, which only a
\* plugin without a successful initialize has
OverallStatusInputs ==
  LET vectors == UNION { [1..n -> {0, 1, 2}] : n \in 1..MaxLen }
  IN [plugin : {"UniversalClassify1Plugin"}, statuses : vectors,
      veto_index : -1..MaxLen, run_feature_num : 0..MaxLen]
       \cup [plugin : {"Motor97Plugin"}, statuses : vectors,
             veto_index : {-1}, run_feature_num : {1}]
       \cup [plugin : {"UniversalClassify1Plugin", "Motor97Plugin"},
             statuses : {<<>>}, veto_index : {-1}, run_feature_num : {1}]

applyCalculateOverallStatus(in) ==
  /\ applied = NoApplication
  /\ applied' = [NoApplication EXCEPT
                   !.fn = "calculateOverallStatus", !.plugin = in.plugin,
                   !.statuses = in.statuses, !.veto_index = in.veto_index,
                   !.run_feature_num = in.run_feature_num,
                   !.result = IF in.plugin = "Motor97Plugin"
                                THEN calculateOverallStatusMotor97(in.statuses,
                                                                   in.run_feature_num)
                                ELSE calculateOverallStatusOf(in.statuses,
                                                              in.veto_index,
                                                              in.run_feature_num)]

applyCalculateFeatureStatus(feature_value, threshold) ==
  /\ applied = NoApplication
  /\ applied' = [NoApplication EXCEPT
                   !.fn = "calculateFeatureStatus", !.value = feature_value,
                   !.list = threshold,
                   !.result = calculateFeatureStatus(feature_value, threshold)]

applyCalculateAlarmLevel(score, alarm_lines) ==
  /\ applied = NoApplication
  /\ applied' = [NoApplication EXCEPT
                   !.fn = "calculateAlarmLevel", !.value = score,
                   !.list = alarm_lines,
                   !.result = calculateAlarmLevel(score, alarm_lines)]

\* a declared health output and the scores of the feature statistics: the
\* weights of a weighted average are not negative
OverallHealthInputs ==
  LET names == {"vibration_health", "current_health"}
  IN [formula |-> {"weighted_average", "geometric_mean"},
      weights |-> UNION { [1..n -> {0, 3}] : n \in 0..MaxLen },
      dependencies |-> UNION { [1..n -> names] : n \in 0..MaxLen },
      feature_scores |-> UNION { [d -> {0, 600, DefaultScore}] : d \in SUBSET names }]

applyCalculateOverallHealth(config, feature_scores) ==
  /\ applied = NoApplication
  /\ applied' = [NoApplication EXCEPT
                   !.fn = "calculateOverallHealth", !.config = config,
                   !.feature_scores = feature_scores,
                   !.health = calculateOverallHealth(config, feature_scores)]

(***************************************************************************)
(* The two mutexes.  A manager call is followed through its lock and       *)
(* unlock steps: std::lock_guard<std::mutex> lock(mutex_) waits until the  *)
(* mutex is free and holds it to the end of the function.  Factories and   *)
(* plugin calls terminate and call no manager.                             *)
(***************************************************************************)
\* the PluginManager calls of a caller thread
RegistryOperations == {"registerPluginFactory", "unregisterPlugin", "createPlugin"}
\* the PluginChainManager calls
ChainOperations == {"createChain", "addPluginToChain", "executeChain", "clearChain"}

\* the PluginManager function that a call makes when `left` of its registry
\* calls are still to come: createChain of a one-stage chain calls
\* isPluginAvailable and then, in initializeChainPlugins, createPlugin;
\* addPluginToChain calls isPluginAvailable; a registry call is itself
RegistryFunction(op, left) ==
  CASE op = "createChain" -> IF left = 2 THEN "isPluginAvailable" ELSE "createPlugin"
    [] op = "addPluginToChain" -> "isPluginAvailable"
    [] OTHER -> op

\* the number of PluginManager calls a manager call makes
RegistryCalls(op) ==
  CASE op = "createChain" -> 2
    [] op = "addPluginToChain" -> 1
    [] op \in RegistryOperations -> 1
    [] OTHER -> 0

\* variant: getPluginFactory takes PluginManager::mutex_ like the public lookups
getPluginFactoryLocks_mutex(function) == function = "createPlugin"

\* does the function, while it holds PluginManager::mutex_, call a function
\* that locks it again?  createPlugin looks the factory up with the private
\* getPluginFactory, which takes no lock; no other function calls one
getPluginFactoryLocks(function) == FALSE

IdleLockThread == [op |-> None, pc |-> "idle", left |-> 0, chain |-> FALSE]

LockInit ==
  /\ registry_mutex = None
  /\ lock_thread = [t \in Threads |-> IdleLockThread]
  /\ lock_ops = 0

\* thread t calls a manager function and reaches its lock_guard
lockCall(t, op) ==
  /\ lock_thread[t].pc = "idle"
  /\ lock_ops < MaxLockOps
  /\ lock_ops' = lock_ops + 1
  /\ lock_thread' = [lock_thread EXCEPT ![t] =
        [op |-> op,
         pc |-> IF op \in ChainOperations THEN "wait_chain" ELSE "wait_registry",
         left |-> RegistryCalls(op), chain |-> FALSE]]
  /\ UNCHANGED <<chain_mutex, registry_mutex>>

\* std::lock_guard<std::mutex> lock(mutex_) of PluginChainManager
lockChainMutex(t) ==
  /\ lock_thread[t].pc = "wait_chain"
  /\ chain_mutex = None
  /\ chain_mutex' = t
  /\ lock_thread' = [lock_thread EXCEPT ![t].chain = TRUE,
        ![t].pc = IF lock_thread[t].left > 0 THEN "wait_registry" ELSE "in_chain"]
  /\ UNCHANGED <<registry_mutex, lock_ops>>

\* std::lock_guard<std::mutex> lock(mutex_) of PluginManager
lockRegistryMutex(t) ==
  /\ lock_thread[t].pc = "wait_registry"
  /\ registry_mutex = None
  /\ registry_mutex' = t
  /\ lock_thread' = [lock_thread EXCEPT ![t].pc = "in_registry"]
  /\ UNCHANGED <<chain_mutex, lock_ops>>

\* the body of a PluginManager function under its lock, and its return
registryBody(t) ==
  /\ lock_thread[t].pc = "in_registry"
  /\ LET th == lock_thread[t]
         left == th.left - 1
     IN IF getPluginFactoryLocks(RegistryFunction(th.op, th.left))
          THEN \* a second lock_guard on the mutex the thread holds
               /\ lock_thread' = [lock_thread EXCEPT ![t].pc = "wait_registry"]
               /\ UNCHANGED registry_mutex
          ELSE /\ registry_mutex' = None
               /\ lock_thread' = [lock_thread EXCEPT ![t] =
                     IF left > 0 THEN [th EXCEPT !.left = left, !.pc = "wait_registry"]
                     ELSE IF th.chain THEN [th EXCEPT !.left = left, !.pc = "in_chain"]
                     ELSE IdleLockThread]
  /\ UNCHANGED <<chain_mutex, lock_ops>>

\* the rest of a PluginChainManager function (for executeChain the stages'
\* process calls) and its return, which releases the chain mutex
chainBody(t) ==
  /\ lock_thread[t].pc = "in_chain"
  /\ chain_mutex' = None
  /\ lock_thread' = [lock_thread EXCEPT ![t] = IdleLockThread]
  /\ UNCHANGED <<registry_mutex, lock_ops>>

\* the chain manager's variables other than its mutex
chainData == <<plugin_factories_, plugin_chains_, plugin_instances_, thread, done,
               next_id, stage_made, chain_ops, registry_ops>>

\* no function applied, and a health plugin with the default
\* minimum_quantity and close_width scaled down, before its first call
ExtInit ==
  /\ applied = NoApplication
  /\ HealthInit([minimum_quantity |-> 2, close_width |-> 1])
  /\ MonitorInit
  /\ LockInit
  /\ SteadyInit

vars == <<now, decVars, lifeVars, alarmVars, chainVars, regVars, extVars>>

\* the classification state machine of one decision plugin instance
InitDecision == now = 1 /\ DecInit /\ LifeReady /\ AlarmInit /\ ChainInit /\ RegistryInit /\ ExtInit
NextDecision ==
  /\ \E input \in DecisionInputs, gap \in DecisionGaps : classifyStatus(input, gap)
  /\ UNCHANGED <<alarmVars, chainVars, regVars, extVars>>
SpecDecision == InitDecision /\ [][NextDecision]_vars

\* one score alarm plugin and one status alarm plugin under one clock
InitAlarm == now = 1 /\ DecParked /\ LifeConstructed /\ AlarmInit /\ ChainInit /\ RegistryInit /\ ExtInit
NextAlarm ==
  \/ \E input \in ScoreInputs : ScoreProcessEvent(input) /\ UNCHANGED <<decVars, lifeVars, chainVars, regVars, extVars>>
  \/ \E input \in StatusInputs : StatusProcessEvent(input) /\ UNCHANGED <<decVars, lifeVars, chainVars, regVars, extVars>>
  \/ \E gap \in AlarmGaps : AlarmTick(gap) /\ UNCHANGED <<decVars, lifeVars, chainVars, regVars, extVars>>
SpecAlarm == InitAlarm /\ [][NextAlarm]_vars

\* the registry and one chain manager called by several threads
InitChain == now = 1 /\ DecParked /\ LifeConstructed /\ AlarmInit /\ ChainInit /\ RegistryInit /\ ExtInit
NextChain ==
  \/ registerAllPlugins /\ UNCHANGED <<now, decVars, lifeVars, alarmVars, regVars, extVars>>
  \/ \E n \in PluginNames, f \in Factories :
       registerPluginFactory(n, f) /\ UNCHANGED <<now, decVars, lifeVars, alarmVars, regVars, extVars>>
  \/ \E n \in PluginNames : unregisterPlugin(n) /\ UNCHANGED <<now, decVars, lifeVars, alarmVars, regVars, extVars>>
  \/ \E t \in Threads, config \in CreateChainInputs :
       createChain(t, config) /\ UNCHANGED <<now, decVars, lifeVars, alarmVars, regVars, extVars>>
  \/ \E t \in Threads : initializeChainPlugins(t) /\ UNCHANGED <<now, decVars, lifeVars, alarmVars, regVars, extVars>>
  \/ \E t \in Threads, c \in ChainNames, n \in PluginNames, q \in AddParams :
       addPluginToChain(t, c, n, q) /\ UNCHANGED <<now, decVars, lifeVars, alarmVars, regVars, extVars>>
  \/ \E t \in Threads, c \in ChainNames, n \in PluginNames :
       removePluginFromChain(t, c, n) /\ UNCHANGED <<now, decVars, lifeVars, alarmVars, regVars, extVars>>
  \/ \E t \in Threads, c \in ChainNames :
       clearChain(t, c) /\ UNCHANGED <<now, decVars, lifeVars, alarmVars, regVars, extVars>>
  \/ \E t \in Threads, c \in ChainNames, input \in ExecInputs, out \in OutputRecords :
       executeChain(t, c, input, out) /\ UNCHANGED <<now, decVars, lifeVars, alarmVars, regVars, extVars>>
  \/ \E t \in Threads, ok \in BOOLEAN :
       executePluginInChain(t, ok) /\ UNCHANGED <<now, decVars, lifeVars, alarmVars, regVars, extVars>>
SpecChain == InitChain /\ [][NextChain]_vars

\* ---- the lifecycle of one decision plugin instance
InitLifecycle == now = 1 /\ DecParked /\ LifeConstructed /\ AlarmInit /\ ChainInit /\ RegistryInit /\ ExtInit
NextLifecycle ==
  \/ \E params \in InitParams : initialize(params) /\ UNCHANGED <<alarmVars, chainVars, regVars, extVars>>
  \/ cleanup /\ UNCHANGED <<alarmVars, chainVars, regVars, extVars>>
  \/ \E input \in DecisionInputs, gap \in DecisionGaps :
       /\ dec_calls < MaxLifecycleCalls
       /\ classifyStatus(input, gap)
       /\ UNCHANGED <<alarmVars, chainVars, regVars, extVars>>
SpecLifecycle == InitLifecycle /\ [][NextLifecycle]_vars

\* ---- the registry and the threads that call it
InitRegistry ==
  now = 1 /\ DecParked /\ LifeConstructed /\ AlarmInit /\ ChainInit /\ RegistryInit /\ ExtInit
NextRegistry ==
  \/ \E t \in Threads, n \in RegisterNames, f \in RegisterFactories :
       registerPluginFactoryBy(t, n, f) /\ UNCHANGED <<now, decVars, lifeVars, alarmVars, extVars>>
  \/ \E t \in Threads, n \in PluginNames :
       unregisterPluginBy(t, n) /\ UNCHANGED <<now, decVars, lifeVars, alarmVars, extVars>>
  \/ \E t \in Threads : clearAllPlugins(t) /\ UNCHANGED <<now, decVars, lifeVars, alarmVars, extVars>>
  \/ \E t \in Threads, n \in PluginNames, q \in CreateParams :
       createPluginLookup(t, n, q) /\ UNCHANGED <<now, decVars, lifeVars, alarmVars, extVars>>
  \/ \E t \in Threads : createPluginInitialize(t) /\ UNCHANGED <<now, decVars, lifeVars, alarmVars, extVars>>
  \/ \E t \in Threads, input \in ExecInputs, output \in {"result", "null"}, ok \in BOOLEAN :
       processBy(t, input, output, ok) /\ UNCHANGED <<now, decVars, lifeVars, alarmVars, extVars>>
SpecRegistry == InitRegistry /\ [][NextRegistry]_vars

\* ---- the pure functions: one application in a behaviour
InitPure ==
  now = 1 /\ DecParked /\ LifeConstructed /\ AlarmInit /\ ChainInit /\ RegistryInit /\ ExtInit
NextPure ==
  \/ /\ applied = NoApplication
     /\ \E in \in OverallStatusInputs :
            /\ applyCalculateOverallStatus(in)
            /\ UNCHANGED <<now, decVars, lifeVars, alarmVars, chainVars, regVars, healthVars, monVars, lockVars, steadyVars>>
  \/ /\ applied = NoApplication
     /\ \E v \in ProbeValues, l \in AscendingLists :
            /\ applyCalculateFeatureStatus(v, l)
            /\ UNCHANGED <<now, decVars, lifeVars, alarmVars, chainVars, regVars, healthVars, monVars, lockVars, steadyVars>>
  \/ /\ applied = NoApplication
     /\ \E v \in ProbeValues, l \in AscendingLists :
            /\ applyCalculateAlarmLevel(v, l)
            /\ UNCHANGED <<now, decVars, lifeVars, alarmVars, chainVars, regVars, healthVars, monVars, lockVars, steadyVars>>
  \/ /\ applied = NoApplication
     /\ \E formula \in OverallHealthInputs.formula,
               weights \in OverallHealthInputs.weights,
               dependencies \in OverallHealthInputs.dependencies,
               feature_scores \in OverallHealthInputs.feature_scores :
            /\ applyCalculateOverallHealth([name |-> "overall_health", formula |-> formula,
                                            weights |-> weights,
                                            dependencies |-> dependencies],
                                           feature_scores)
            /\ UNCHANGED <<now, decVars, lifeVars, alarmVars, chainVars, regVars, healthVars, monVars, lockVars, steadyVars>>
SpecPure == InitPure /\ [][NextPure]_vars

\* ---- one realtime health plugin
InitHealth ==
  /\ now = 1 /\ DecParked /\ LifeConstructed /\ AlarmInit /\ ChainInit /\ RegistryInit
  /\ applied = NoApplication
  /\ \E p \in HealthParams : HealthInit(p)
  /\ MonitorInit
  /\ LockInit
  /\ SteadyInit
NextHealth ==
  /\ \E input \in HealthInputs, gap \in HealthGaps : evaluateHealth(input, gap)
  /\ UNCHANGED <<decVars, lifeVars, alarmVars, chainVars, regVars, applied, monVars, lockVars, steadyVars>>
SpecHealth == InitHealth /\ [][NextHealth]_vars

\* ---- one execution monitor
InitMonitor ==
  now = 1 /\ DecParked /\ LifeConstructed /\ AlarmInit /\ ChainInit /\ RegistryInit /\ ExtInit
NextMonitor ==
  \/ \E n \in PluginNames :
       startMonitoring(n) /\ UNCHANGED <<now, decVars, lifeVars, alarmVars, chainVars, regVars, applied, healthVars, lockVars, steadyVars>>
  \/ \E n \in PluginNames :
       stopMonitoring(n) /\ UNCHANGED <<now, decVars, lifeVars, alarmVars, chainVars, regVars, applied, healthVars, lockVars, steadyVars>>
  \/ \E enabled \in BOOLEAN :
       setMonitoringEnabled(enabled) /\ UNCHANGED <<now, decVars, lifeVars, alarmVars, chainVars, regVars, applied, healthVars, lockVars, steadyVars>>
  \/ \E n \in PluginNames, success \in BOOLEAN, ms \in ExecutionTimes :
       /\ recordExecution(n, success, ms, "error")
       /\ UNCHANGED <<now, decVars, lifeVars, alarmVars, chainVars, regVars, applied, healthVars, lockVars, steadyVars>>
SpecMonitor == InitMonitor /\ [][NextMonitor]_vars

\* ---- the two mutexes: manager calls of several threads, followed through
\* their lock and unlock steps
InitLocks ==
  now = 1 /\ DecParked /\ LifeConstructed /\ AlarmInit /\ ChainInit /\ RegistryInit /\ ExtInit
\* what the steps of the mutexes leave alone
lockFrame ==
  <<now, decVars, lifeVars, alarmVars, chainData, regVars, applied, healthVars, monVars,
    steadyVars>>
\* a step of thread t inside a manager call
LockStep(t) ==
  \/ lockChainMutex(t) /\ UNCHANGED lockFrame
  \/ lockRegistryMutex(t) /\ UNCHANGED lockFrame
  \/ registryBody(t) /\ UNCHANGED lockFrame
  \/ chainBody(t) /\ UNCHANGED lockFrame
NextLocks ==
  \/ \E t \in Threads, op \in RegistryOperations \cup ChainOperations :
       lockCall(t, op) /\ UNCHANGED lockFrame
  \/ \E t \in Threads : LockStep(t)
SpecLocks == InitLocks /\ [][NextLocks]_vars
\* the scheduler runs every thread that can take a step: a thread inside a
\* call whose next step stays possible eventually takes it
SpecLocksFair ==
  InitLocks /\ [][NextLocks]_vars /\ \A t \in Threads : WF_vars(LockStep(t))

\* ---- a decision plugin whose raw status becomes constant
InitSettle == InitDecision
steadyFrame == <<alarmVars, chainVars, regVars, applied, healthVars, monVars, lockVars>>
SteadyStep ==
  \E input \in SteadyInputs(steady), gap \in SettleGaps :
    classifySteady(input, gap) /\ UNCHANGED steadyFrame
NextSettle ==
  \/ \E input \in SteadyInputs(0) \cup SteadyInputs(1), gap \in SettleGaps :
       classifyPrior(input, gap) /\ UNCHANGED steadyFrame
  \/ \E s \in {0, 1} : settle(s) /\ UNCHANGED steadyFrame
  \/ SteadyStep
SpecSettle == InitSettle /\ [][NextSettle]_vars
\* the caller goes on presenting readings: an invocation that stays possible
\* is eventually made
SpecSettleFair == InitSettle /\ [][NextSettle]_vars /\ WF_vars(SteadyStep)

(***************************************************************************)
(* Properties of the decision plugin (SpecDecision).                       *)
(***************************************************************************)
\* C1 (hysteresis stability): when the previous emitted status is p and the
\* status written to the result as "status" is the raw status s # p, then at
\* least transition_width consecutive invocations (the start width for s = 1,
\* the close width for s = 0) have computed s as the raw overall status.
C1_HysteresisStability ==
  ( /\ dec_seen.computed
    /\ dec_seen.p # -1
    /\ dec_seen.raw # dec_seen.p
    /\ dec_result["status"] = dec_seen.raw )
  => dec_seen.run >= (IF dec_seen.raw = 1 THEN transition_width_[1]
                                          ELSE transition_width_[2])

(***************************************************************************)
(* Properties of the alarm plugins (SpecAlarm).                            *)
(***************************************************************************)
\* C2 (debounce non-repetition): two alarm events for the same health name are
\* at least alarm_interval seconds apart, and two alarm events for the same
\* status code are at least the recovery reset time apart, whatever values were
\* presented in between.
C2_DebounceNonRepetition ==
  /\ \A k \in HealthNames : \A i, j \in 1..Len(fire_log[k]) :
        i < j => fire_log[k][j] - fire_log[k][i] >= alarm_interval_ * TicksPerSec
  /\ \A c \in StatusCodes : \A i, j \in 1..Len(st_fire_log[c]) :
        i < j => st_fire_log[c][j] - st_fire_log[c][i]
                    >= DefaultRecoveryResetTime * TicksPerSec

\* C2: a health name has fired a second time, exactly alarm_interval seconds
\* after its first firing, and a status code has fired as well
C2_Witness ==
  /\ \E k \in HealthNames :
        /\ Len(fire_log[k]) = 2
        /\ fire_log[k][2] - fire_log[k][1] = alarm_interval_ * TicksPerSec
  /\ \E c \in StatusCodes : Len(st_fire_log[c]) > 0

\* C3 (tolerance suppression): every alarm event for a health name was preceded,
\* since the instance was created or since the last firing for that name, by at
\* least tolerable_length breaching invocations for it (the firing one included).
C3_ToleranceSuppression ==
  \A k \in HealthNames :
     fire_breaches[k] = -1 \/ fire_breaches[k] >= tolerable_length_

(***************************************************************************)
(* Properties of the chain orchestrator (SpecChain).                       *)
(***************************************************************************)
\* C4 (createChain atomic on initialization failure): when createChain returns
\* false because the instance of a stage could not be created or initialized,
\* the chain name is registered in neither the definition map nor the instance
\* map at the return.
C4_CreateChainAtomic ==
  [][ ( /\ done'.seq # done.seq
        /\ done'.op = "createChain"
        /\ ~done'.ret
        /\ done'.why = "init_failed" )
      => ( /\ done'.chain \notin DOMAIN plugin_chains_'
           /\ done'.chain \notin DOMAIN plugin_instances_' ) ]_vars

C6_StagesInDeclaredOrder ==
  /\ \A L \in ExecutionLogs : \A j \in 1..Len(L) :
        /\ L[j].pos = j
        /\ L[j].name = L[j].decl
        /\ (j < Len(L) => L[j].ok)
  /\ \A t \in Threads : thread[t].pc = "exec" =>
        /\ Len(thread[t].log) = thread[t].i - 1
        /\ DOMAIN thread[t].cur =
             {thread[t].log[j].name : j \in 1..Len(thread[t].log)}
  /\ done.op = "executeChain" =>
        DOMAIN done.cur =
          {done.log[j].name : j \in {k \in 1..Len(done.log) : done.log[k].ok}}

\* C6: an execution of a chain of two different plugins ran both stages and
\* returned success
C6_Witness ==
  /\ done.op = "executeChain"
  /\ done.ret
  /\ Len(done.log) = 2
  /\ done.log[1].name # done.log[2].name

\* C7 (abort on first failure): a stage that failed or had no instance is the
\* last stage invoked in its execution, and that execution returns failure.
C7_AbortOnFirstFailure ==
  /\ \A t \in Threads : \A j \in 1..Len(thread[t].log) : thread[t].log[j].ok
  /\ done.op = "executeChain" =>
        \A j \in 1..Len(done.log) :
           ~done.log[j].ok => (j = Len(done.log) /\ ~done.ret)

\* C7: the first stage of a chain of two stages failed and the execution
\* returned failure without invoking the second
C7_Witness ==
  /\ done.op = "executeChain"
  /\ ~done.ret
  /\ Len(done.log) = 1
  /\ done.chain \in DOMAIN plugin_chains_
  /\ Len(plugin_chains_[done.chain].plugin_names) = 2

\* C8 (no partial record): when executeChain returns failure the caller's
\* output record is what it was before the call.
C8_NoPartialRecord ==
  (done.op = "executeChain" /\ ~done.ret) => done.out = done.pre

\* C8: an execution failed after an earlier stage had written to the
\* accumulating record
C8_Witness ==
  /\ done.op = "executeChain"
  /\ ~done.ret
  /\ done.cur # EmptyRecord

\* C9 (chain instances persist): every stage for which createChain made an
\* instance is processed, in every execution, by that very instance.
C9_StageRunsOwnInstance ==
  \A L \in ExecutionLogs : \A j \in 1..Len(L) :
     L[j].made # 0 => L[j].id = L[j].made

\* C10 (mutual exclusion): at most one thread is inside a chain manager
\* operation, and while an executeChain is between its first and its last
\* stage no step changes the definition of its chain or replaces, adds or
\* removes an instance of its chain.
C10_MutualExclusion ==
  [][ /\ \A t, u \in Threads :
           (thread'[t].pc # "idle" /\ thread'[u].pc # "idle") => t = u
      /\ \A t \in Threads : thread[t].pc = "exec" =>
           LET c == thread[t].chain
               ids(m) == IF c \in DOMAIN m
                           THEN [n \in DOMAIN m[c] |-> m[c][n].id]
                           ELSE EmptyRecord
           IN /\ c \in DOMAIN plugin_chains_
              /\ c \in DOMAIN plugin_chains_'
              /\ plugin_chains_'[c] = plugin_chains_[c]
              /\ ids(plugin_instances_') = ids(plugin_instances_) ]_vars

\* C10: an executeChain is between its first and its second stage while
\* further chain manager calls are still to come
C10_Witness ==
  \E t \in Threads :
     /\ thread[t].pc = "exec"
     /\ thread[t].i = 2
     /\ chain_ops < MaxChainOps

\* C11 (different chains in parallel): while an executeChain on one chain is
\* in progress, the lock that an executeChain on another registered chain has
\* to take is free, so that execution can start and complete.
C11_DifferentChainsParallel ==
  \A t \in Threads : thread[t].pc = "exec" =>
     \A b \in DOMAIN plugin_chains_ \ {thread[t].chain} : CanLock

\* C12 (NotInitialized): a classifyStatus call made while the plugin is not
\* initialized (before a successful initialize, or after cleanup) returns
\* failure, writes nothing to the result record and leaves the temporal state
\* (previous status, previous reading time, counters, history) as it was.
C12_NotInitialized ==
  [][ (dec_calls' = dec_calls + 1 /\ ~initialized_)
        => /\ dec_ret' = FALSE
           /\ dec_result' = EmptyRecord
           /\ UNCHANGED <<prev_status_, prev_time_, transition_counter_,
                          close_counter_, time_series_counter_, status_history_>>
    ]_vars

\* C13 (InputTypeMismatch): a classifyStatus call is rejected for the type of
\* its reading exactly when the reading's variant is outside
\* getSupportedInputTypes().
C13_InputTypeMismatch ==
  dec_calls > 0 =>
    (dec_seen.why = "type" <=> dec_seen.type \notin getSupportedInputTypes)

\* C14 (initialization failure is terminal): once an initialize of the
\* instance has returned false, isInitialized() is false ever after.
C14_InitFailureTerminal == init_failed => ~initialized_

\* C15 (per-call errors do not advance state): a classifyStatus call that
\* returns failure leaves prev_status_, the counters and the history as they
\* were, or as the offline reset that ran first left them.
C15_FailureKeepsState ==
  [][ (dec_calls' = dec_calls + 1 /\ dec_ret' = FALSE)
        => \/ UNCHANGED <<prev_status_, transition_counter_, close_counter_,
                          time_series_counter_, status_history_>>
           \/ /\ OfflineExpired(now')
              /\ prev_status_' = -1
              /\ transition_counter_' = 0
              /\ close_counter_' = 0
              /\ time_series_counter_' = 0
              /\ UNCHANGED status_history_
    ]_vars

\* C16 (MissingFeature): a classifyStatus call whose reading lacks a selected
\* feature returns failure, writes nothing to the result record and leaves
\* prev_status_, prev_time_, the counters and the history unchanged.
C16_MissingFeatureKeepsState ==
  [][ (dec_calls' = dec_calls + 1 /\ dec_seen'.why = "missing")
        => /\ dec_ret' = FALSE
           /\ dec_result' = EmptyRecord
           /\ UNCHANGED <<prev_status_, prev_time_, transition_counter_,
                          close_counter_, time_series_counter_, status_history_>>
    ]_vars

\* C20 (offline reset): of two consecutive classifyStatus invocations that
\* both got past the type check, the second resets the counters and
\* prev_status_ exactly when more than offline_length_ seconds lie between them.
C20_OfflineReset ==
  [][ ( /\ dec_calls' = dec_calls + 1
        /\ dec_calls > 0
        /\ dec_seen.why # "type"
        /\ dec_seen'.why # "type" )
        => (dec_seen'.reset <=> (now' - now > offline_length_ * TicksPerSec))
    ]_vars

\* C17 (registry overwrite): each name maps to the factory of the last
\* register call for it that no unregister or clear followed (and to none
\* otherwise); a register for a name that is already registered succeeds
\* and leaves the set of registered names unchanged; a createPlugin(name)
\* returns an object made by the factory registered last before its lookup.
C17_RegistryOverwrite ==
  /\ \A n \in RegisterNames : getPluginFactory(n) = LastRegistered(reg_log, n)
  /\ ( /\ reg_done.op = "registerPluginFactory"
       /\ reg_done.factory # None
       /\ reg_done.name \in reg_done.before )
     => (reg_done.ret = TRUE /\ reg_done.after = reg_done.before)
  /\ (reg_done.op = "createPlugin" /\ reg_done.plugin # NullPlugin)
     => reg_done.plugin.factory =
          LastRegistered(SubSeq(reg_log, 1, reg_done.at), reg_done.name)

\* a createPlugin(name) has returned an object made by f2 after name was
\* registered with f1 and then with f2
C17_Witness ==
  /\ reg_done.op = "createPlugin"
  /\ reg_done.plugin # NullPlugin
  /\ reg_done.plugin.factory = "f2"
  /\ \E i, j \in 1..Len(reg_log) :
       /\ i < j
       /\ reg_log[i] = [op |-> "registerPluginFactory", name |-> reg_done.name,
                        factory |-> "f1"]
       /\ reg_log[j] = [op |-> "registerPluginFactory", name |-> reg_done.name,
                        factory |-> "f2"]

\* C18 (createPlugin(name, params) returns no instance if either step
\* fails): the call returns nullptr when the name had no factory, when the
\* factory returned nullptr and when initialize(params) returned false; an
\* instance returned for non-null params is initialized.
C18_CreateWithParams ==
  reg_done.op = "createPlugin" =>
    /\ reg_done.found = None => reg_done.plugin = NullPlugin
    /\ reg_done.found = NullFactory => reg_done.plugin = NullPlugin
    /\ (reg_done.params # "null" /\ ~validateParameters(reg_done.params))
         => reg_done.plugin = NullPlugin
    /\ (reg_done.plugin # NullPlugin /\ reg_done.params # "null")
         => reg_done.plugin.initialized_

\* a createPlugin(name, params) whose factory made an object has returned
\* nullptr because initialize(params) failed
C18_Witness ==
  /\ reg_done.op = "createPlugin"
  /\ reg_done.found \in Factories
  /\ reg_done.params = "bad"
  /\ reg_done.plugin = NullPlugin

\* C19 (the registry holds its mutex through creation): while a
\* createPlugin(name, params) of one thread is between its factory lookup and
\* the return of initialize, no registerPluginFactory, unregisterPlugin or
\* clearAllPlugins of another thread takes effect.
C19_LockHeldThroughCreation ==
  [][ (\E t \in Threads : reg_thread[t].pc = "initialize")
        => (reg_log' = reg_log /\ plugin_factories_' = plugin_factories_)
    ]_vars

\* C21 (veto dominance): in every decision plugin, when the plugin's
\* veto_index_ is a valid index of the vector of feature statuses and the
\* status at that index is 0, the overall status computed is 0, whatever the
\* other statuses and run_feature_num_ are.
C21_VetoDominance ==
  ( /\ applied.fn = "calculateOverallStatus"
    /\ applied.veto_index >= 0
    /\ applied.veto_index < Len(applied.statuses)
    /\ applied.statuses[applied.veto_index + 1] = 0 )
  => applied.result = 0

\* the veto has forced 0 although enough other features are running
C21_Witness ==
  /\ applied.fn = "calculateOverallStatus"
  /\ applied.veto_index >= 0
  /\ applied.veto_index < Len(applied.statuses)
  /\ applied.statuses[applied.veto_index + 1] = 0
  /\ Cardinality({i \in 1..Len(applied.statuses) : applied.statuses[i] > 0})
       >= Max(applied.run_feature_num, 1)
  /\ applied.result = 0

\* C22 (threshold monotonicity): for an ascending threshold list T,
\* calculateFeatureStatus(v, T) is the 0-based index of the first threshold
\* with v <= T[i], and Len(T) when v exceeds every threshold; it lies in
\* 0..Len(T) and does not decrease when v grows.
C22_ThresholdMonotonicity ==
  applied.fn = "calculateFeatureStatus" =>
    LET v == applied.value
        T == applied.list
        r == applied.result
    IN /\ r \in 0..Len(T)
       /\ \A j \in 1..r : v > T[j]
       /\ r < Len(T) => v <= T[r + 1]
       /\ \A w \in ProbeValues :
            w <= v => calculateFeatureStatus(w, T) <= r

\* a value strictly inside the list's range has got an inner index, and a
\* value equal to a threshold has got that threshold's index
C22_Witness ==
  /\ applied.fn = "calculateFeatureStatus"
  /\ applied.list = <<0, 10, 20>>
  /\ applied.value = 10
  /\ applied.result = 1

\* C23 (quorum rule): when no veto applies, the overall status is 1 exactly
\* when the number of feature statuses greater than 0 is at least
\* run_feature_num_, and 0 otherwise; it is always 0 or 1.
C23_QuorumRule ==
  applied.fn = "calculateOverallStatus" =>
    LET fs == applied.statuses
        veto == /\ applied.veto_index >= 0
                /\ applied.veto_index < Len(fs)
                /\ fs[applied.veto_index + 1] = 0
        run_count == Cardinality({i \in 1..Len(fs) : fs[i] > 0})
    IN /\ applied.result \in {0, 1}
       /\ ~veto => (applied.result = 1 <=> run_count >= applied.run_feature_num)

\* exactly run_feature_num_ features are running, no veto applies, and the
\* status is 1
C23_Witness ==
  /\ applied.fn = "calculateOverallStatus"
  /\ applied.run_feature_num = 2
  /\ Len(applied.statuses) = 3
  /\ Cardinality({i \in 1..Len(applied.statuses) : applied.statuses[i] > 0}) = 2
  /\ applied.veto_index = -1
  /\ applied.result = 1

\* C30 (alarm severity): for an ordered list of alarm lines, the severity of
\* a score is the 1-based index of the first line with score <= line,
\* Len(lines) + 1 when the score exceeds every line, and 0 only when there
\* are no lines.
C30_AlarmSeverity ==
  applied.fn = "calculateAlarmLevel" =>
    LET score == applied.value
        lines == applied.list
        r == applied.result
    IN IF Len(lines) = 0 THEN r = 0
       ELSE /\ r \in 1..(Len(lines) + 1)
            /\ \A j \in 1..(r - 1) : score > lines[j]
            /\ r <= Len(lines) => score <= lines[r]

\* a score between the first and the second line has got severity 2, the
\* index of the second line
C30_Witness ==
  /\ applied.fn = "calculateAlarmLevel"
  /\ applied.list = <<0, 10, 20>>
  /\ applied.value = 5
  /\ applied.result = 2

(***************************************************************************)
(* Further properties of the alarm plugins (SpecAlarm).                    *)
(***************************************************************************)
\* C28 (lifetime firing cap): for every status code the number of alarms
\* fired never exceeds the maximum configured for it: max_alarm_num of its
\* alarm rule, 10 for a code without a rule.  (A score alarm key has no
\* maximum.)
C28_LifetimeFiringCap ==
  \A c \in StatusCodes :
    Len(st_fire_log[c]) <= IF c \in AlarmRuleCodes THEN RuleMaxAlarmNum
                                                    ELSE DefaultMaxAlarmNum

\* C29 (alarm re-arms after the interval): when a health name that has fired
\* at time t is presented to the score alarm plugin at a time t' with
\* t' - t >= alarm_interval, with a breaching score or any other, it fires:
\* an event is emitted for it and its firing timestamp becomes t'.
C29_AlarmRearms ==
  [][(ev_calls' = ev_calls + 1 /\ ev_seen'.plugin = "score")
       => \A k \in ev_seen'.keys :
            (/\ k \in DOMAIN last_alarm_time_
             /\ now - last_alarm_time_[k] >= alarm_interval_ * TicksPerSec)
              => /\ k \in ev_seen'.fired
                 /\ ev_result' # EmptyRecord
                 /\ fire_log'[k] = Append(fire_log[k], now)
                 /\ last_alarm_time_'[k] = now]_vars

\* C29, reached: h2 has fired twice, the second time exactly alarm_interval
\* after the first, with a breaching score (the severity is the index of an
\* alarm line), and the event of the second firing is in the result
C29_Witness ==
  /\ ev_seen.plugin = "score"
  /\ Len(fire_log["h2"]) = 2
  /\ fire_log["h2"][2] - fire_log["h2"][1] = alarm_interval_ * TicksPerSec
  /\ ev_seen.at = fire_log["h2"][2]
  /\ "h2" \in ev_seen.fired
  /\ last_alarm_time_["h2"] = ev_seen.at
  /\ ev_result # EmptyRecord
  /\ ev_result["event_name"] = "h2"
  /\ ev_result["severity_level"] <= Len(alarm_lines_)
  /\ ev_result["timestamp"] = ev_seen.at

\* C39 (score alarms fire only on a breach): in every processEvent of the
\* score alarm plugin, a health name whose score is above every alarm line
\* fires no event, and its last-alarm time and its firing count are as before
\* the invocation.
C39_FiresOnlyOnBreach ==
  [][(ev_calls' = ev_calls + 1 /\ ev_seen'.plugin = "score")
       => \A k \in ev_seen'.keys :
            ~Breaches(ev_seen'.scores[k])
              => /\ k \notin ev_seen'.fired
                 /\ (k \in DOMAIN last_alarm_time_') = (k \in DOMAIN last_alarm_time_)
                 /\ k \in DOMAIN last_alarm_time_
                      => last_alarm_time_'[k] = last_alarm_time_[k]
                 /\ (k \in DOMAIN alarm_count_') = (k \in DOMAIN alarm_count_)
                 /\ k \in DOMAIN alarm_count_
                      => alarm_count_'[k] = alarm_count_[k]]_vars

(***************************************************************************)
(* Properties of the realtime health plugin (SpecHealth).                  *)
(***************************************************************************)
\* every cached vector of the map is empty
CachesEmpty(cache) == \A k \in DOMAIN cache : cache[k] = <<>>

\* C24 (health status gate clears caches): after an evaluateHealth invocation
\* that is at least the close_width-th consecutive one with the device not
\* running, the feature cache and the timestamp cache are empty.
C24_StatusGateClearsCaches ==
  (~health_seen.running /\ health_seen.idle >= close_width_)
    => CachesEmpty(feature_cache_) /\ CachesEmpty(time_cache_)

\* C25 (health offline reset): when an evaluateHealth invocation comes more
\* than offline_length seconds after the previous one, the caches are emptied
\* and the run / close counters zeroed before its input is considered: after
\* it the caches hold at most the sample of this invocation and the counters
\* count at most this invocation.
C25_HealthOfflineReset ==
  [][(/\ health_calls > 0
      /\ health_calls' = health_calls + 1
      /\ now' - now > health_offline_length_ * TicksPerSec)
       => LET own == IF health_seen'.running THEN 1 ELSE 0
          IN /\ \A k \in DOMAIN feature_cache_' : Len(feature_cache_'[k]) <= own
             /\ \A k \in DOMAIN time_cache_' : Len(time_cache_'[k]) <= own
             /\ run_count_' = own
             /\ close_count_' <= 1 - own]_vars

\* C26 (minimum quantity): a running evaluateHealth invocation whose feature
\* cache holds fewer than minimum_quantity samples emits the default score
\* 100 for the feature; so do the first minimum_quantity - 1 running
\* invocations after creation and after each invocation that resets the
\* caches (the offline timeout, the status gate).
C26_MinimumQuantity ==
  (health_seen.running
     /\ (health_seen.size < minimum_quantity_ \/ health_seen.since < minimum_quantity_))
    => health_seen.stat_scores[feature_stat.result_key] = DefaultScore

\* C27 (composition fails open): a declared health output whose formula is
\* not a supported one, or whose dependencies that have a score carry weights
\* that sum to 0 (also when no dependency has a score), is emitted as the
\* default score 100; any other output is the weighted average of the
\* scores of the dependencies that have one.  (SpecPure)
C27_CompositionFailsOpen ==
  applied.fn = "calculateOverallHealth" =>
    LET config == applied.config
        scores == applied.feature_scores
        n == IF Len(config.weights) < Len(config.dependencies)
               THEN Len(config.weights) ELSE Len(config.dependencies)
        resolved == {i \in 1..n : config.dependencies[i] \in DOMAIN scores}
        weight == SeqSum([i \in 1..n |-> IF i \in resolved THEN config.weights[i] ELSE 0])
        sum == SeqSum([i \in 1..n |->
                         IF i \in resolved
                           THEN scores[config.dependencies[i]] * config.weights[i]
                           ELSE 0])
    IN IF config.formula # "weighted_average" \/ weight = 0
         THEN applied.health = <<DefaultScore, 1>>
         ELSE /\ applied.health[2] > 0
              /\ applied.health[1] * weight = sum * applied.health[2]

\* C27, reached: a weighted average whose only dependency with a score has
\* weight 0, while a dependency without a score has a positive weight; the
\* output is the default and not the score of the dependency
C27_Witness ==
  /\ applied.fn = "calculateOverallHealth"
  /\ applied.config.formula = "weighted_average"
  /\ applied.config.dependencies = <<"vibration_health", "current_health">>
  /\ applied.config.weights = <<0, 3>>
  /\ applied.feature_scores = [k \in {"vibration_health"} |-> 600]
  /\ applied.health = <<DefaultScore, 1>>

\* C36 (gate output): in an evaluateHealth invocation whose reading is not in
\* the running status, the result record receives exactly the entries of the
\* last-known score map as it was before the invocation, the last-known score
\* map is left unchanged, no sample is appended to a cache (each cache is as
\* before or was emptied by the offline reset), and the call returns true.
C36_GateOutput ==
  [][(/\ health_calls' = health_calls + 1
      /\ ~health_seen'.running)
       => /\ health_result' = last_health_scores_
          /\ last_health_scores_' = last_health_scores_
          /\ feature_cache_' \in {feature_cache_, EmptyRecord}
          /\ time_cache_' \in {time_cache_, EmptyRecord}
          /\ health_ret']_vars

\* a reading that is not running came after a score was computed and while
\* the cache held a sample
C36_Witness ==
  /\ health_calls > 1
  /\ ~health_seen.running
  /\ health_result # EmptyRecord
  /\ health_result = last_health_scores_
  /\ \E k \in DOMAIN feature_cache_ : feature_cache_[k] # <<>>

(***************************************************************************)
(* Further properties of the registry and its instances (SpecRegistry).    *)
(***************************************************************************)
\* C33 (null parameters skip initialization): createPlugin(name, nullptr)
\* for a name registered with a factory that makes objects returns an
\* instance, and the instance is not initialized; process on an initialized
\* instance with a null input or a null output returns false.
C33_NullParameters ==
  /\ (/\ reg_done.op = "createPlugin"
      /\ reg_done.params = "null"
      /\ reg_done.found \in Factories)
       => (reg_done.plugin # NullPlugin /\ ~reg_done.plugin.initialized_)
  /\ (/\ reg_done.op = "process"
      /\ reg_done.plugin.initialized_
      /\ (reg_done.input = "null" \/ reg_done.output = "null"))
       => ~reg_done.ret

\* C33, reached: process with a reading and a null output has returned false
\* on an instance that createPlugin has initialized
C33_Witness ==
  /\ reg_done.op = "process"
  /\ reg_done.plugin # NullPlugin
  /\ reg_done.plugin.initialized_
  /\ reg_done.input = "reading"
  /\ reg_done.output = "null"
  /\ ~reg_done.ret

(***************************************************************************)
(* Further properties of the chain orchestrator (SpecChain).               *)
(***************************************************************************)
\* C31 (chain lifecycle as the test asserts it): a createChain whose config
\* has a chain name and a plugin list returns true, and at its return the
\* chain is available (isChainAvailable) with the plugin names of the config
\* in order (getChainPlugins); a clearChain of an available chain returns
\* true, and at its return the chain is not available and has no instances.
C31_ChainLifecycle ==
  [][/\ (/\ done' # done
         /\ done'.op = "createChain"
         /\ done'.config.chain_name # ""
         /\ done'.config.plugin_names # <<>>)
          => /\ done'.ret
             /\ done'.chain \in DOMAIN plugin_chains_'
             /\ plugin_chains_'[done'.chain].plugin_names = done'.config.plugin_names
     /\ (/\ done' # done
         /\ done'.op = "clearChain"
         /\ done'.chain \in DOMAIN plugin_chains_)
          => /\ done'.ret
             /\ done'.chain \notin DOMAIN plugin_chains_'
             /\ done'.chain \notin DOMAIN plugin_instances_']_vars

\* C34 (instance isolation): the instances held by the chains are pairwise
\* different objects (every createPlugin returned a fresh one), also across
\* chains and for instances of the same factory; and a step changes the state
\* of a held instance only when it is an executeChain iteration that runs the
\* stage of that chain and plugin name: the instances of every other chain
\* and name keep their state.
C34_InstanceIsolation ==
  [][/\ \A c1 \in DOMAIN plugin_instances_', c2 \in DOMAIN plugin_instances_' :
          \A n1 \in DOMAIN plugin_instances_'[c1], n2 \in DOMAIN plugin_instances_'[c2] :
            <<c1, n1>> # <<c2, n2>>
              => plugin_instances_'[c1][n1].id # plugin_instances_'[c2][n2].id
     /\ \A c \in DOMAIN plugin_instances_ \cap DOMAIN plugin_instances_' :
          \A n \in DOMAIN plugin_instances_[c] \cap DOMAIN plugin_instances_'[c] :
            (/\ plugin_instances_'[c][n].id = plugin_instances_[c][n].id
             /\ plugin_instances_'[c][n] # plugin_instances_[c][n])
              => \E t \in Threads :
                   /\ thread[t].pc = "exec"
                   /\ thread[t].chain = c
                   /\ StageAt(plugin_chains_[c].plugin_names, thread[t].i) = n]_vars

\* two chains hold instances made by the same factory, and one of them has
\* processed a reading while the other has not
C34_Witness ==
  \E c1 \in DOMAIN plugin_instances_, c2 \in DOMAIN plugin_instances_ :
    \E n1 \in DOMAIN plugin_instances_[c1], n2 \in DOMAIN plugin_instances_[c2] :
      /\ c1 # c2
      /\ plugin_instances_[c1][n1].factory = plugin_instances_[c2][n2].factory
      /\ plugin_instances_[c1][n1].calls > 0
      /\ plugin_instances_[c2][n2].calls = 0

\* C35 (one instance per stage): when createChain returns true for a chain
\* with n stages, the chain's instance map holds n different instances, and
\* for every stage position the instance made for that position is held and
\* carries that position's parameter set (initialized when the set is not
\* null), also when a plugin name appears at several positions.
C35_OneInstancePerStage ==
  [][(/\ done' # done
      /\ done'.op = "createChain"
      /\ done'.ret)
       => LET c == done'.chain
              config == plugin_chains_'[c]
              held == IF c \in DOMAIN plugin_instances_'
                        THEN plugin_instances_'[c] ELSE EmptyRecord
          IN /\ Cardinality({held[n].id : n \in DOMAIN held}) = Len(config.plugin_names)
             /\ \A i \in 1..Len(config.plugin_names) :
                  \E n \in DOMAIN held :
                    /\ held[n].id = stage_made'[c][i]
                    /\ held[n].params = config.plugin_params[i]
                    /\ config.plugin_params[i] # "null" => held[n].initialized_]_vars

\* C37 (addPluginToChain extends the executable chain): when
\* addPluginToChain(chain, p, params) returns true, the chain's instance map
\* holds an instance for p that is initialized with params, so that the next
\* executeChain finds an instance for the new last stage.
C37_AddPluginCreatesInstance ==
  [][(/\ done' # done
      /\ done'.op = "addPluginToChain"
      /\ done'.ret)
       => LET c == done'.chain
              config == plugin_chains_'[c]
              last == Len(config.plugin_names)
              p == config.plugin_names[last]
          IN /\ c \in DOMAIN plugin_instances_'
             /\ p \in DOMAIN plugin_instances_'[c]
             /\ plugin_instances_'[c][p].initialized_
             /\ plugin_instances_'[c][p].params = config.plugin_params[last]]_vars

LockOrder ==
  \A t \in Threads :
    /\ lock_thread[t].pc = "wait_chain"
         => chain_mutex # t /\ registry_mutex # t
    /\ lock_thread[t].pc = "wait_registry" => registry_mutex # t
    /\ lock_thread[t].op \in RegistryOperations => chain_mutex # t

\* C38 (deadlock freedom): under every interleaving of registry calls and
\* chain manager calls of the threads, the lock order above is kept in every
\* state, and every call that a thread has started eventually returns.
C38_DeadlockFreedom ==
  /\ []LockOrder
  /\ \A t \in Threads : (lock_thread[t].pc # "idle") ~> (lock_thread[t].pc = "idle")

\* a thread is inside a registry function while it holds the chain mutex,
\* and the other thread waits for the registry mutex
C38_Witness ==
  \E t \in Threads, u \in Threads :
    /\ t # u
    /\ lock_thread[t].pc = "in_registry"
    /\ chain_mutex = t
    /\ registry_mutex = t
    /\ lock_thread[u].pc = "wait_registry"

(***************************************************************************)
(* Properties of the execution monitor (SpecMonitor).                      *)
(***************************************************************************)
\* C32 (monitor counters): after every call, execution_count =
\* success_count + error_count for every plugin, and execution_count is the
\* number of recordExecution calls made for the plugin while it was monitored
\* and monitoring was enabled (0 for a plugin without metrics); a
\* recordExecution for a plugin that is not monitored changes no metric.
C32_MonitorCounters ==
  [][/\ \A n \in PluginNames :
          IF n \in DOMAIN plugin_metrics_'
            THEN /\ plugin_metrics_'[n].execution_count =
                      plugin_metrics_'[n].success_count + plugin_metrics_'[n].error_count
                 /\ plugin_metrics_'[n].execution_count = mon_recorded'[n]
            ELSE mon_recorded'[n] = 0
     /\ (/\ mon_calls' = mon_calls + 1
         /\ mon_seen'.op = "recordExecution"
         /\ ~mon_seen'.monitored)
          => plugin_metrics_' = plugin_metrics_]_vars

\* C32, reached: A was monitored for one failed execution, then stopped, and
\* the recordExecution made for it afterwards has changed nothing
C32_Witness ==
  /\ mon_seen.op = "recordExecution"
  /\ mon_seen.plugin_name = "A"
  /\ ~mon_seen.monitored
  /\ mon_seen.enabled
  /\ "A" \in DOMAIN plugin_metrics_
  /\ plugin_metrics_["A"].execution_count = 1
  /\ plugin_metrics_["A"].error_count = 1
  /\ mon_recorded["A"] = 1
====
